---- MODULE Spec2Model ----
(***************************************************************************)
(* Model of the multi-account orchestration of aws-finops-dashboard-go:    *)
(* DashboardUseCase.RunDashboard (internal/application/usecase), from      *)
(* profile resolution over the per-unit pipelines to sort, render and      *)
(* export.                                                                 *)
(*                                                                         *)
(* Conventions.  A profile name is a number of 1..NProfiles; the order of  *)
(* numbers stands for Go's string order of names, no name being a prefix   *)
(* of another.  A group identifier (strings.Join(profiles, ", ")) is the   *)
(* sequence of its names, compared lexicographically.  An account ID is a  *)
(* number, 0 standing for "".  An error is a record of a message and the   *)
(* wrapped cause, or a string in a row, "" standing for nil.  Every call   *)
(* of the AWSRepository interface either succeeds or fails; at most        *)
(* MaxFaults calls fail in one run.  A call that fails returns the zero    *)
(* value of its result type.                                               *)
(***************************************************************************)
EXTENDS Integers, Sequences, FiniteSets, TLC

\* ------------------------------------------------------------------ bounds
NProfiles == 3
MaxFaults == 2

\* ------------------------------------------------------- program constants
PoolSize == 10
DashboardSteps == 5
AuditSteps == 8
FullAuditSteps == 6
DefaultProfile == 1

Names == 1..NProfiles

VARIABLES
  commandLine,       \* the flags as given, where parseArgs is modelled; else <<>>
  configFile,        \* what LoadConfigFile returns for args.ConfigFile; else <<>>
  args,              \* the CLIArgs the run reads
  available,         \* what awsRepo.GetAWSProfiles() returns
  pc,                \* position of the main goroutine
  runErr,            \* the error RunDashboard returns
  profilesToScan,    \* initializeProfiles: the selected names
  lookup,            \* initializeProfiles: state of each identity goroutine
  accountToProfiles, \* initializeProfiles: account -> names, in append order
  profileGroups,     \* the batch initializeProfiles returns
  mode,              \* the pipeline RunDashboard dispatched to
  unit,              \* per work unit: the state of its goroutine / job
  jobs,              \* generateDashboardData: the jobs channel
  jobsClosed,        \* generateDashboardData: close(jobs) done
  resultsChan,       \* generateDashboardData: the results channel
  workers,           \* generateDashboardData: worker goroutines started/idle/exited
  results,           \* the rows collected (processedData, auditDataList, results)
  arrival,           \* history: the rows in the order they were collected
  table,             \* the rows added to the rendered table
  exported,          \* what was handed to the export repository
  issued,            \* history: the repository queries issued so far
  faults,            \* the number of repository calls that failed so far
  tasks,             \* where the goroutines inside one call are modelled: their state
  local              \* where they are modelled: the variables they share; else <<>>

vars == <<commandLine, configFile, args, available, pc, runErr, profilesToScan, lookup, accountToProfiles,
          profileGroups, mode, unit, jobs, jobsClosed, resultsChan, workers,
          results, arrival, table, exported, issued, faults, tasks, local>>

inputVars == <<commandLine, configFile, args, available>>
fileVars == <<commandLine, configFile, available>>
taskVars == <<tasks, local>>
resolverVars == <<profilesToScan, lookup, accountToProfiles, profileGroups>>
poolVars == <<jobs, jobsClosed, resultsChan, workers>>
resultVars == <<results, arrival>>
outputVars == <<table, exported>>

\* ------------------------------------------------------------ helpers
Range(s) == {s[i] : i \in DOMAIN s}

Min(a, b) == IF a < b THEN a ELSE b

RECURSIVE SeqLess(_, _)
\* Go's string "<" on identifiers
SeqLess(a, b) ==
  IF b = <<>> THEN FALSE
  ELSE IF a = <<>> THEN TRUE
  ELSE IF Head(a) # Head(b) THEN Head(a) < Head(b)
  ELSE SeqLess(Tail(a), Tail(b))

RECURSIVE Insert(_, _)
Insert(x, s) ==
  IF s = <<>> THEN <<x>>
  ELSE IF x <= Head(s) THEN <<x>> \o s
  ELSE <<Head(s)>> \o Insert(x, Tail(s))

RECURSIVE SortStrings(_)
\* sort.Strings
SortStrings(s) == IF s = <<>> THEN <<>> ELSE Insert(Head(s), SortStrings(Tail(s)))

\* The sorted sequence of the elements of a set of names
RECURSIVE SetToSeq(_)
SetToSeq(S) ==
  IF S = {} THEN <<>>
  ELSE LET m == CHOOSE x \in S : \A y \in S : x <= y
       IN <<m>> \o SetToSeq(S \ {m})

Perms(n) == {f \in [1..n -> 1..n] : \A i, j \in 1..n : i # j => f[i] # f[j]}

\* The subsets of C of at most k elements
RECURSIVE SubsetsUpTo(_, _)
SubsetsUpTo(C, k) ==
  IF k <= 0 THEN {{}}
  ELSE LET prev == SubsetsUpTo(C, k - 1)
       IN prev \cup {S \cup {c} : S \in prev, c \in C}

\* The sets of calls, among the calls C an operation makes, that may fail now
FaultSets(C) == SubsetsUpTo(C, MaxFaults - faults)

\* One repository call: it may fail while the fault budget lasts
Outcomes == IF faults < MaxFaults THEN BOOLEAN ELSE {TRUE}
FaultCost(ok) == IF ok THEN 0 ELSE 1

Query(u, q, p) == [u |-> u, q |-> q, p |-> p]
Queries(u, Q, p) == {Query(u, q, p) : q \in Q}

NoError == [msg |-> "", cause |-> ""]
Errorf(msg, cause) == [msg |-> msg, cause |-> cause]

\* --------------------------------------------------------- the data source
\* sts:GetCallerIdentity of a profile
AccountOf(p) == (p + 1) \div 2

CostPrev(p) == 1000 * p
CostCur(p) == 1000 * p + 500 * (p - 1)

Ec2States == {"running", "stopped", "terminated"}
\* The instances DescribeInstances lists for a profile over a region list
Ec2Instances(p, rg) ==
  [s \in Ec2States |->
     CASE s = "running" -> p + (IF rg = "fallback" THEN 0 ELSE 1)
       [] s = "stopped" -> p - 1
       [] OTHER -> IF p = 2 THEN 1 ELSE 0]

\* An EC2Summary (map[string]int): the keys present and the count of each state
EmptySummary == [keys |-> {}, n |-> [s \in Ec2States |-> 0]]

\* What GetEC2Summary returns without error: one count per listed instance state,
\* and the keys "running" and "stopped" always present
Ec2SummaryOf(p, rg) ==
  [keys |-> {s \in Ec2States : Ec2Instances(p, rg)[s] > 0} \cup {"running", "stopped"},
   n |-> Ec2Instances(p, rg)]

BudgetsOf(p) == <<[Name |-> p, Limit |-> 1000, Actual |-> 600 * p]>>

\* The 8 queries of the resource audit
AuditChecks == {"GetNatGatewayCost", "GetIdleLoadBalancers", "GetStoppedInstances",
                "GetUnusedVolumes", "GetUnusedEIPs", "GetUntaggedResources",
                "GetUnusedVpcEndpoints", "GetBudgets"}

CheckNumber(c) ==
  CASE c = "GetNatGatewayCost" -> 1
    [] c = "GetIdleLoadBalancers" -> 2
    [] c = "GetStoppedInstances" -> 3
    [] c = "GetUnusedVolumes" -> 4
    [] c = "GetUnusedEIPs" -> 5
    [] c = "GetUntaggedResources" -> 6
    [] c = "GetUnusedVpcEndpoints" -> 7
    [] OTHER -> 8

\* What an audit query finds for a profile: a list of resource ids or budgets;
\* some checks of some profiles find nothing
FindingsOf(c, p) ==
  IF c = "GetBudgets" THEN BudgetsOf(p)
  ELSE IF (CheckNumber(c) + p) % 3 = 0 THEN <<>>
  ELSE <<10 * p + CheckNumber(c)>>

\* ------------------------------------------------------ initializeProfiles
\* The selection of profilesToScan
SelectProfiles(a, avail) ==
  IF a.All THEN avail
  ELSE IF Len(a.Profiles) > 0
    THEN SelectSeq(a.Profiles, LAMBDA p : p \in Range(avail))
  ELSE IF DefaultProfile \in Range(avail) THEN <<DefaultProfile>>
  ELSE avail

SingleGroup(p) ==
  [Identifier |-> <<p>>, AccountID |-> 0, Profiles |-> <<p>>, IsCombined |-> FALSE]

CombinedGroupUnsorted(accID, profiles) ==
  [Identifier |-> profiles, AccountID |-> accID, Profiles |-> profiles,
   IsCombined |-> TRUE]

\* sort.Strings(profiles), then the group of one key of accountToProfiles
CombinedGroup(accID, profiles) ==
  [Identifier |-> SortStrings(profiles), AccountID |-> accID,
   Profiles |-> SortStrings(profiles), IsCombined |-> TRUE]

Accounts == {AccountOf(p) : p \in Names}

InitializeSelect ==
  /\ pc = "start"
  /\ profilesToScan' = SelectProfiles(args, available)
  /\ IF Len(profilesToScan') = 0
       THEN pc' = "aborted" /\ runErr' = Errorf("ErrNoValidProfilesFound", "")
       ELSE pc' = "verify" /\ UNCHANGED runErr
  /\ UNCHANGED <<inputVars, taskVars, lookup, accountToProfiles, profileGroups, mode,
                 unit, poolVars, resultVars, outputVars, issued, faults>>

VerifyIgnoresError(ok) == FALSE

\* if err != nil { return nil, fmt.Errorf("credential validation failed ...") }
VerifyReturns(ok) == ~ok

\* The credential check on profilesToScan[0]; without combine the groups follow
VerifyCredentials ==
  /\ pc = "verify"
  /\ \E ok \in Outcomes :
       /\ faults' = faults + FaultCost(ok)
       /\ runErr' = IF ok THEN runErr
                    ELSE Errorf("credential validation failed", "GetAccountID failed")
       /\ IF VerifyReturns(ok)
            THEN /\ pc' = "aborted"
                 /\ UNCHANGED <<lookup, profileGroups>>
            ELSE IF ~args.Combine
            THEN /\ profileGroups' =
                      [i \in 1..Len(profilesToScan) |-> SingleGroup(profilesToScan[i])]
                 /\ pc' = "dispatch"
                 /\ UNCHANGED lookup
            ELSE /\ lookup' = [i \in 1..Len(profilesToScan) |-> "pending"]
                 /\ pc' = "lookup"
                 /\ UNCHANGED profileGroups
  /\ issued' = issued \cup {Query(0, "GetAccountID", profilesToScan[1])}
  /\ UNCHANGED <<inputVars, taskVars, profilesToScan, accountToProfiles, mode, unit,
                 poolVars, resultVars, outputVars>>

\* One identity goroutine: GetAccountID, then the append under mu
LookupAccount(i) ==
  /\ pc = "lookup"
  /\ lookup[i] = "pending"
  /\ \E ok \in Outcomes :
       /\ faults' = faults + FaultCost(ok)
       /\ lookup' = [lookup EXCEPT ![i] = IF ok THEN "ok" ELSE "failed"]
       /\ accountToProfiles' =
            IF ok
            THEN LET acc == AccountOf(profilesToScan[i])
                 IN [accountToProfiles EXCEPT ![acc] = Append(@, profilesToScan[i])]
            ELSE accountToProfiles
  /\ issued' = issued \cup {Query(0, "GetAccountID", profilesToScan[i])}
  /\ UNCHANGED <<inputVars, taskVars, pc, runErr, profilesToScan, profileGroups, mode,
                 unit, poolVars, resultVars, outputVars>>

\* After wg.Wait(): one group per key of the map, in the map's iteration order
BuildGroups ==
  /\ pc = "lookup"
  /\ \A i \in DOMAIN lookup : lookup[i] # "pending"
  /\ LET keys == {a \in Accounts : accountToProfiles[a] # <<>>}
         ks == SetToSeq(keys)
     IN \E f \in Perms(Len(ks)) :
          profileGroups' =
            [i \in 1..Len(ks) |-> CombinedGroup(ks[f[i]], accountToProfiles[ks[f[i]]])]
  /\ pc' = "dispatch"
  /\ UNCHANGED <<inputVars, taskVars, runErr, profilesToScan, lookup, accountToProfiles,
                 mode, unit, poolVars, resultVars, outputVars, issued, faults>>

\* ------------------------------------------------------------ RunDashboard
ReportFlags == {"S3Audit", "LogsAudit", "Commitments", "Audit", "FullAudit", "Trend",
                "Transfer"}

SelectPipelineTransferFirst(f) ==
  IF "Transfer" \in f THEN "transfer"
  ELSE IF "S3Audit" \in f THEN "s3"
  ELSE IF "LogsAudit" \in f THEN "logs"
  ELSE IF "Commitments" \in f THEN "commitments"
  ELSE IF "Audit" \in f THEN "audit"
  ELSE IF "FullAudit" \in f THEN "fullaudit"
  ELSE IF "Trend" \in f THEN "trend"
  ELSE "dashboard"

\* The order of the if-chain of RunDashboard
SelectPipeline(f) ==
  IF "S3Audit" \in f THEN "s3"
  ELSE IF "LogsAudit" \in f THEN "logs"
  ELSE IF "Commitments" \in f THEN "commitments"
  ELSE IF "Audit" \in f THEN "audit"
  ELSE IF "FullAudit" \in f THEN "fullaudit"
  ELSE IF "Trend" \in f THEN "trend"
  ELSE IF "Transfer" \in f THEN "transfer"
  ELSE "dashboard"

\* The pipelines that start one goroutine per group and append rows under mu
GoModes == {"audit", "logs", "transfer", "s3", "commitments", "fullaudit"}
\* The pipelines that aggregate one row per unit
ResultModes == GoModes \cup {"dashboard"}

NumUnits == Len(profileGroups)
Units == 1..NumUnits
LastMember(u) == profileGroups[u].Profiles[Len(profileGroups[u].Profiles)]

\* primaryProfile := group.Profiles[0], profile := g.Profiles[0]
Primary(u) == profileGroups[u].Profiles[1]

\* mergeConfig and initializeProfiles are done; len(profileGroups) == 0 returns nil
Dispatch ==
  /\ pc = "dispatch"
  /\ IF NumUnits = 0
       THEN pc' = "done" /\ UNCHANGED mode
       ELSE pc' = "run" /\ mode' = SelectPipeline(args.Flags)
  /\ UNCHANGED <<inputVars, taskVars, runErr, resolverVars, unit, poolVars, resultVars,
                 outputVars, issued, faults>>

\* The regions a unit works on: args.Regions, else GetAccessibleRegions, whose
\* error is dropped and whose result is then its default list
RegionCalls == IF args.Regions THEN {} ELSE {"GetAccessibleRegions"}

RegionsOf(F) ==
  IF args.Regions THEN "user"
  ELSE IF "GetAccessibleRegions" \in F THEN "fallback" ELSE "accessible"

\* ------------------------------------------------------- the cost dashboard
Nil == [defined |-> FALSE, num |-> 0, den |-> 1]

PercentageChangeZeroForNew(current, previous) ==
  IF previous > 1
    THEN [defined |-> TRUE, num |-> (current - previous) * 100, den |-> previous]
  ELSE [defined |-> TRUE, num |-> 0, den |-> 1]

\* Amounts are in cents; the change is the exact quotient num / den
calculatePercentageChange(current, previous) ==
  IF previous > 1
    THEN [defined |-> TRUE, num |-> (current - previous) * 100, den |-> previous]
  ELSE IF current < 1 THEN [defined |-> TRUE, num |-> 0, den |-> 1]
  ELSE Nil

Line(text, v) == [text |-> text, v |-> v]

formatServiceCosts(costs) ==
  IF Len(costs) = 0 THEN <<Line("No costs found", 0)>>
  ELSE [i \in 1..Len(costs) |-> Line("service", costs[i])]

formatBudgetInfo(budgets) ==
  IF Len(budgets) = 0 THEN <<Line("No budgets configured", 0)>>
  ELSE [i \in 1..Len(budgets) |-> Line("budget", budgets[i].Actual)]

StateOrder == <<"running", "stopped", "terminated">>

formatEC2Summary(summary) ==
  LET shown == SelectSeq(StateOrder,
                         LAMBDA s : s \in summary.keys /\ summary.n[s] > 0)
  IN IF Len(shown) = 0 THEN <<Line("No instances found", 0)>>
     ELSE [i \in 1..Len(shown) |-> Line(shown[i], summary.n[shown[i]])]

\* entity.CostData{}
ZeroCostData ==
  [AccountID |-> 0, LastMonthCost |-> 0, CurrentMonthCost |-> 0,
   CurrentMonthCostByService |-> <<>>, Budgets |-> <<>>]

\* What GetCostData returns without error; its account and budget lookups are
\* optional parts, left zero when they fail
CostDataOf(p, F) ==
  [AccountID |-> IF "GetCostData.account" \in F THEN 0 ELSE AccountOf(p),
   LastMonthCost |-> CostPrev(p),
   CurrentMonthCost |-> CostCur(p),
   CurrentMonthCostByService |-> <<CostCur(p)>>,
   Budgets |-> IF "GetCostData.budgets" \in F THEN <<>> ELSE BudgetsOf(p)]

\* entity.ProfileData{Profile: ..., AccountID: ..., Success: false}
NewProfileData(profile, accountID) ==
  [Profile |-> profile, AccountID |-> accountID, LastMonth |-> 0, CurrentMonth |-> 0,
   ServiceCosts |-> <<>>, ServiceCostsFormatted |-> <<>>, BudgetInfo |-> <<>>,
   EC2Summary |-> EmptySummary, EC2SummaryFormatted |-> <<>>,
   Success |-> FALSE, Err |-> "", PercentChangeInCost |-> Nil]

populateProfileData(data, costData, ec2Summary) ==
  [data EXCEPT
     !.AccountID = costData.AccountID,
     !.LastMonth = costData.LastMonthCost,
     !.CurrentMonth = costData.CurrentMonthCost,
     !.ServiceCosts = costData.CurrentMonthCostByService,
     !.ServiceCostsFormatted = formatServiceCosts(costData.CurrentMonthCostByService),
     !.BudgetInfo = formatBudgetInfo(costData.Budgets),
     !.EC2Summary = ec2Summary,
     !.EC2SummaryFormatted = formatEC2Summary(ec2Summary),
     !.PercentChangeInCost =
        calculatePercentageChange(costData.CurrentMonthCost, costData.LastMonthCost),
     !.Success = TRUE]

NoWorkers(numJobs) == 0

\* numWorkers of generateDashboardData
NumWorkers(numJobs) == IF numJobs < numJobs THEN numJobs ELSE PoolSize

MergeOverwrite(combined, summary) ==
  [keys |-> combined.keys \cup summary.keys,
   n |-> [s \in Ec2States |-> IF s \in summary.keys THEN summary.n[s]
                              ELSE combined.n[s]]]

\* for state, count := range summary { combinedEC2Summary[state] += count }
MergeSummary(combined, summary) ==
  [keys |-> combined.keys \cup summary.keys,
   n |-> [s \in Ec2States |-> IF s \in summary.keys THEN combined.n[s] + summary.n[s]
                              ELSE combined.n[s]]]

\* The calls of processSingleProfile
SingleCalls ==
  {"GetCostData", "GetCostData.account", "GetCostData.budgets", "GetEC2Summary"}
    \cup RegionCalls

\* The calls of processCombinedProfile before its member goroutines
CombinedCalls ==
  {"GetCostData", "GetCostData.account", "GetCostData.budgets"} \cup RegionCalls

\* The failure sets a job can meet: after a failed cost fetch nothing else is called
JobFaultSets(C) == {F \in FaultSets(C) : "GetCostData" \in F => F = {"GetCostData"}}

SingleProfileDataCancelled(profile, F) ==
  IF faults > 0 \/ "GetCostData" \in F \/ "GetEC2Summary" \in F
    THEN [NewProfileData(<<profile>>, 0) EXCEPT !.Err = "cancelled"]
  ELSE populateProfileData(NewProfileData(<<profile>>, 0), CostDataOf(profile, F),
                           Ec2SummaryOf(profile, RegionsOf(F)))

SingleProfileDataPartial(profile, F) ==
  IF "GetCostData" \in F
    THEN [populateProfileData(NewProfileData(<<profile>>, 0), CostDataOf(profile, {}),
                              EmptySummary)
            EXCEPT !.Success = FALSE, !.Err = "failed to get cost data"]
  ELSE IF "GetEC2Summary" \in F
    THEN [NewProfileData(<<profile>>, 0) EXCEPT !.Err = "failed to get EC2 summary"]
  ELSE populateProfileData(NewProfileData(<<profile>>, 0), CostDataOf(profile, F),
                           Ec2SummaryOf(profile, RegionsOf(F)))

SingleProfileDataRegionsCritical(profile, F) ==
  IF "GetCostData" \in F
    THEN [NewProfileData(<<profile>>, 0) EXCEPT !.Err = "failed to get cost data"]
  ELSE IF "GetAccessibleRegions" \in F
    THEN [NewProfileData(<<profile>>, 0) EXCEPT !.Err = "failed to get regions"]
  ELSE IF "GetEC2Summary" \in F
    THEN [NewProfileData(<<profile>>, 0) EXCEPT !.Err = "failed to get EC2 summary"]
  ELSE populateProfileData(NewProfileData(<<profile>>, 0), CostDataOf(profile, F),
                           Ec2SummaryOf(profile, RegionsOf(F)))

\* The ProfileData processSingleProfile returns when the calls of F fail
SingleProfileData(profile, F) ==
  IF "GetCostData" \in F
    THEN [NewProfileData(<<profile>>, 0) EXCEPT !.Err = "failed to get cost data"]
  ELSE IF "GetEC2Summary" \in F
    THEN [NewProfileData(<<profile>>, 0) EXCEPT !.Err = "failed to get EC2 summary"]
  ELSE populateProfileData(NewProfileData(<<profile>>, 0), CostDataOf(profile, F),
                           Ec2SummaryOf(profile, RegionsOf(F)))

\* The progress.Increment() calls processSingleProfile reaches
SingleProfileSteps(F) ==
  IF "GetCostData" \in F THEN 1 ELSE IF "GetEC2Summary" \in F THEN 3 ELSE DashboardSteps

\* The queries processSingleProfile issues
SingleProfileQueries(F) ==
  IF "GetCostData" \in F THEN {"GetCostData"}
  ELSE {"GetCostData", "GetEC2Summary"} \cup RegionCalls

DashUnit(g) ==
  [pc |-> "new", bar |-> 0, failed |-> {},
   data |-> NewProfileData(g.Identifier, g.AccountID),
   cost |-> ZeroCostData, regions |-> "none",
   members |-> [i \in 1..Len(g.Profiles) |-> "idle"],
   ec2 |-> EmptySummary]

\* runCostDashboard up to the worker loop of generateDashboardData: the period
\* labels (a GetCostData of the first profile), the channels, the workers
DashStart ==
  /\ pc = "run" /\ mode = "dashboard"
  /\ \E ok \in Outcomes : faults' = faults + FaultCost(ok)
  /\ issued' = issued \cup {Query(0, "GetCostData", profileGroups[1].Profiles[1])}
  /\ unit' = [u \in Units |-> DashUnit(profileGroups[u])]
  /\ jobs' = <<>> /\ jobsClosed' = FALSE /\ resultsChan' = <<>>
  /\ workers' = [started |-> NumWorkers(NumUnits), idle |-> NumWorkers(NumUnits),
                 exited |-> 0]
  /\ pc' = "enqueue"
  /\ UNCHANGED <<inputVars, taskVars, runErr, resolverVars, mode, resultVars, outputVars>>

\* for _, group := range profileGroups: the bar, then jobs <- profileJob{...}
DashEnqueue ==
  /\ pc = "enqueue"
  /\ \E u \in Units :
       /\ unit[u].pc = "new"
       /\ \A v \in Units : v < u => unit[v].pc # "new"
       /\ Len(jobs) < NumUnits
       /\ unit' = [unit EXCEPT ![u].pc = "queued"]
       /\ jobs' = Append(jobs, u)
  /\ UNCHANGED <<inputVars, taskVars, pc, runErr, resolverVars, mode, jobsClosed,
                 resultsChan, workers, resultVars, outputVars, issued, faults>>

DashCloseJobs ==
  /\ pc = "enqueue"
  /\ \A u \in Units : unit[u].pc # "new"
  /\ jobsClosed' = TRUE
  /\ pc' = "collect"
  /\ UNCHANGED <<inputVars, taskVars, runErr, resolverVars, mode, unit, jobs, resultsChan,
                 workers, resultVars, outputVars, issued, faults>>

\* A worker receives a job: processProfileJob starts
WorkerTake ==
  /\ mode = "dashboard" /\ pc \in {"enqueue", "collect"}
  /\ workers.idle > 0
  /\ jobs # <<>>
  /\ jobs' = Tail(jobs)
  /\ workers' = [workers EXCEPT !.idle = @ - 1]
  /\ unit' = [unit EXCEPT ![Head(jobs)].pc = "running"]
  /\ UNCHANGED <<inputVars, taskVars, pc, runErr, resolverVars, mode, jobsClosed,
                 resultsChan, resultVars, outputVars, issued, faults>>

\* A worker's range over jobs ends: the channel is closed and empty
WorkerExit ==
  /\ mode = "dashboard" /\ pc = "collect"
  /\ workers.idle > 0
  /\ jobs = <<>> /\ jobsClosed
  /\ workers' = [workers EXCEPT !.idle = @ - 1, !.exited = @ + 1]
  /\ UNCHANGED <<inputVars, taskVars, pc, runErr, resolverVars, mode, unit, jobs,
                 jobsClosed, resultsChan, resultVars, outputVars, issued, faults>>

\* results <- data: the worker hands the result over and is back at its range
SendResult(data) ==
  /\ Len(resultsChan) < NumUnits
  /\ resultsChan' = Append(resultsChan, data)
  /\ workers' = [workers EXCEPT !.idle = @ + 1]
  /\ UNCHANGED <<jobs, jobsClosed>>

\* processSingleProfile: cost, regions, inventory, populateProfileData, and the send
ProcessSingleProfile(u) ==
  /\ mode = "dashboard" /\ unit[u].pc = "running"
  /\ ~profileGroups[u].IsCombined
  /\ \E F \in JobFaultSets(SingleCalls) :
       /\ faults' = faults + Cardinality(F)
       /\ unit' = [unit EXCEPT
            ![u].pc = "done",
            ![u].bar = SingleProfileSteps(F),
            ![u].failed = F,
            ![u].regions = IF "GetCostData" \in F THEN "none" ELSE RegionsOf(F),
            ![u].data = SingleProfileData(Primary(u), F)]
       /\ SendResult(SingleProfileData(Primary(u), F))
       /\ issued' = issued \cup Queries(u, SingleProfileQueries(F), Primary(u))
  /\ UNCHANGED <<inputVars, taskVars, pc, runErr, resolverVars, mode, resultVars, outputVars>>

\* processCombinedProfile up to the start of the member goroutines: cost, regions
ProcessCombinedProfile(u) ==
  /\ mode = "dashboard" /\ unit[u].pc = "running"
  /\ profileGroups[u].IsCombined
  /\ \E F \in JobFaultSets(CombinedCalls) :
       /\ faults' = faults + Cardinality(F)
       /\ IF "GetCostData" \in F
            THEN /\ unit' = [unit EXCEPT
                      ![u].pc = "done", ![u].bar = 1, ![u].failed = F,
                      ![u].data.Err = "failed to get cost data for account"]
                 /\ SendResult([unit[u].data EXCEPT
                                  !.Err = "failed to get cost data for account"])
                 /\ issued' = issued \cup {Query(u, "GetCostData", Primary(u))}
            ELSE /\ unit' = [unit EXCEPT
                      ![u].pc = "members", ![u].bar = 3, ![u].failed = F,
                      ![u].cost = CostDataOf(Primary(u), F),
                      ![u].regions = RegionsOf(F),
                      ![u].members = [i \in DOMAIN @ |-> "pending"]]
                 /\ UNCHANGED poolVars
                 /\ issued' = issued
                      \cup Queries(u, {"GetCostData"} \cup RegionCalls, Primary(u))
  /\ UNCHANGED <<inputVars, taskVars, pc, runErr, resolverVars, mode, resultVars, outputVars>>

\* processCombinedProfile: one member goroutine, its fetch and its merge under ec2Mu
DashMember(u, i) ==
  /\ mode = "dashboard" /\ unit[u].pc = "members"
  /\ unit[u].members[i] = "pending"
  /\ \E ok \in Outcomes :
       /\ faults' = faults + FaultCost(ok)
       /\ unit' =
            IF ok
            THEN [unit EXCEPT ![u].members[i] = "merged",
                    ![u].ec2 = MergeSummary(@, Ec2SummaryOf(profileGroups[u].Profiles[i],
                                                            unit[u].regions))]
            ELSE [unit EXCEPT ![u].members[i] = "failed",
                              ![u].failed = @ \cup {"GetEC2Summary"}]
  /\ issued' = issued \cup {Query(u, "GetEC2Summary", profileGroups[u].Profiles[i])}
  /\ UNCHANGED <<inputVars, taskVars, pc, runErr, resolverVars, mode, poolVars, resultVars,
                 outputVars>>

\* processCombinedProfile after ec2Wg.Wait(): populateProfileData, and the send
DashJoin(u) ==
  /\ mode = "dashboard" /\ unit[u].pc = "members"
  /\ \A i \in DOMAIN unit[u].members : unit[u].members[i] # "pending"
  /\ unit' = [unit EXCEPT
       ![u].pc = "done", ![u].bar = DashboardSteps,
       ![u].data = populateProfileData(unit[u].data, unit[u].cost, unit[u].ec2)]
  /\ SendResult(populateProfileData(unit[u].data, unit[u].cost, unit[u].ec2))
  /\ UNCHANGED <<inputVars, taskVars, pc, runErr, resolverVars, mode, resultVars, outputVars,
                 issued, faults>>

AppendDroppingFailed(rows, r) ==
  IF "Err" \in DOMAIN r /\ r.Err # "" THEN rows ELSE Append(rows, r)

\* append(rows, r), of the collecting loop and of each goroutine under mu
AppendResult(rows, r) == Append(rows, r)

\* processedData = append(processedData, <-results); the loop counts its receives
DashCollect ==
  /\ mode = "dashboard" /\ pc = "collect"
  /\ Len(arrival) < NumUnits
  /\ resultsChan # <<>>
  /\ results' = AppendResult(results, Head(resultsChan))
  /\ arrival' = Append(arrival, Head(resultsChan))
  /\ resultsChan' = Tail(resultsChan)
  /\ UNCHANGED <<inputVars, taskVars, pc, runErr, resolverVars, mode, unit, jobs,
                 jobsClosed, workers, outputVars, issued, faults>>

\* wg.Wait() and the return of generateDashboardData
DashWait ==
  /\ mode = "dashboard" /\ pc = "collect"
  /\ Len(arrival) = NumUnits
  /\ workers.exited = workers.started
  /\ pc' = "collected"
  /\ UNCHANGED <<inputVars, taskVars, runErr, resolverVars, mode, unit, poolVars, resultVars,
                 outputVars, issued, faults>>

\* ------------------------------------------- the goroutine-per-group pipelines
\* A formatted cell: the text of the empty case, or the listed items
Text(t) == [text |-> t, items |-> <<>>]
Listing(items) == [text |-> "list", items |-> items]

NatDisplayLimit == 5

formatNatGatewayCosts(costs) ==
  IF Len(costs) = 0 THEN Text("None")
  ELSE Listing(SubSeq(costs, 1, Min(NatDisplayLimit, Len(costs))))

formatAuditMap(data) == IF Len(data) = 0 THEN Text("None") ELSE Listing(data)

formatAuditMapForUntagged(data) == IF Len(data) = 0 THEN Text("None") ELSE Listing(data)

formatBudgetAlerts(budgets) ==
  LET alerts == SelectSeq(budgets, LAMBDA b : b.Actual > b.Limit)
  IN IF Len(alerts) = 0 THEN Text("No budgets exceeded") ELSE Listing(alerts)

CheckResultAllOrNothing(c, p, F) ==
  IF F \cap AuditChecks # {} THEN <<>> ELSE FindingsOf(c, p)

\* natCosts, _ = uc.awsRepo.GetNatGatewayCost(...) and its 7 likes: the error is
\* dropped and the value returned is kept
CheckResult(c, p, F) == IF c \in F THEN <<>> ELSE FindingsOf(c, p)

\* entity.AuditData{...} from the values of the 8 checks
AuditDataOf(profile, accountID, v) ==
  [Profile |-> profile, AccountID |-> accountID,
   NatGatewayCosts |-> formatNatGatewayCosts(v["GetNatGatewayCost"]),
   IdleLoadBalancers |-> formatAuditMap(v["GetIdleLoadBalancers"]),
   StoppedInstances |-> formatAuditMap(v["GetStoppedInstances"]),
   UnusedVolumes |-> formatAuditMap(v["GetUnusedVolumes"]),
   UnusedEIPs |-> formatAuditMap(v["GetUnusedEIPs"]),
   UntaggedResources |-> formatAuditMapForUntagged(v["GetUntaggedResources"]),
   UnusedVpcEndpoints |-> formatAuditMap(v["GetUnusedVpcEndpoints"]),
   BudgetAlerts |-> formatBudgetAlerts(v["GetBudgets"])]

GoUnit ==
  [pc |-> "running", bar |-> 0, failed |-> {}, regions |-> "none", accountID |-> 0,
   vals |-> [c \in AuditChecks |-> <<>>]]

\* for _, group := range profileGroups { wg.Add(1); go func(g) {...}(group) }
GoStart ==
  /\ pc = "run" /\ mode \in GoModes
  /\ unit' = [u \in Units |-> GoUnit]
  /\ pc' = "wait"
  /\ UNCHANGED <<inputVars, taskVars, runErr, resolverVars, mode, poolVars, resultVars,
                 outputVars, issued, faults>>

GoWaitEarly ==
  /\ pc = "wait"
  /\ pc' = "collected"
  /\ UNCHANGED <<inputVars, taskVars, runErr, resolverVars, mode, unit, poolVars, resultVars,
                 outputVars, issued, faults>>

\* wg.Wait()
GoWait ==
  /\ pc = "wait"
  /\ \A u \in Units : unit[u].pc = "done"
  /\ pc' = "collected"
  /\ UNCHANGED <<inputVars, taskVars, runErr, resolverVars, mode, unit, poolVars, resultVars,
                 outputVars, issued, faults>>

\* The end of a unit's goroutine: its row appended under mu
Deliver(u, F, steps, Q, row) ==
  /\ faults' = faults + Cardinality(F)
  /\ unit' = [unit EXCEPT ![u].pc = "done", ![u].bar = steps, ![u].failed = @ \cup F]
  /\ results' = AppendResult(results, row)
  /\ arrival' = Append(arrival, row)
  /\ issued' = issued \cup Queries(u, Q, Primary(u))
  /\ UNCHANGED <<inputVars, taskVars, pc, runErr, resolverVars, mode, poolVars, outputVars>>

\* runAuditReport, one unit: the regions and the 8 check goroutines, to auditWg.Wait().
\* The checks write 8 distinct locals that nothing reads before the wait
AuditRunChecks(u) ==
  /\ mode = "audit" /\ pc = "wait" /\ unit[u].pc = "running"
  /\ \E F \in FaultSets(AuditChecks \cup RegionCalls) :
       /\ faults' = faults + Cardinality(F)
       /\ unit' = [unit EXCEPT
            ![u].pc = "checked", ![u].bar = AuditSteps, ![u].failed = F,
            ![u].regions = RegionsOf(F),
            ![u].vals = [c \in AuditChecks |-> CheckResult(c, Primary(u), F)]]
  /\ issued' = issued \cup Queries(u, AuditChecks \cup RegionCalls, Primary(u))
  /\ UNCHANGED <<inputVars, taskVars, pc, runErr, resolverVars, mode, poolVars, resultVars,
                 outputVars>>

\* runAuditReport, one unit after auditWg.Wait(): GetAccountID, the format calls and
\* the append under mu
AuditAssemble(u) ==
  /\ mode = "audit" /\ pc = "wait" /\ unit[u].pc = "checked"
  /\ \E F \in FaultSets({"GetAccountID"}) :
       Deliver(u, F, AuditSteps, {"GetAccountID"},
               AuditDataOf(<<Primary(u)>>,
                           IF F = {} THEN AccountOf(Primary(u)) ELSE 0,
                           unit[u].vals))

\* entity.CloudWatchLogsAudit
LogsAuditOf(id, accountID, p) ==
  [Profile |-> id, AccountID |-> accountID, NoRetentionCount |-> p - 1,
   TotalStoredGB |-> 10 * p]

ZeroLogsAudit == [Profile |-> <<>>, AccountID |-> 0, NoRetentionCount |-> 0,
                  TotalStoredGB |-> 0]

\* The row runCloudWatchLogsAudit appends for a group
LogsRow(g, F) ==
  IF "GetCloudWatchLogGroups" \in F
    THEN [Profile |-> g.Identifier, AccountID |-> 0, Audit |-> ZeroLogsAudit,
          Err |-> "GetCloudWatchLogGroups failed"]
  ELSE LET accountID == IF "GetAccountID" \in F THEN 0 ELSE AccountOf(g.Profiles[1])
       IN [Profile |-> g.Identifier, AccountID |-> accountID,
           Audit |-> LogsAuditOf(g.Identifier, accountID, g.Profiles[1]),
           Err |-> ""]

LogsQueries(F) ==
  RegionCalls \cup {"GetCloudWatchLogGroups"}
    \cup (IF "GetCloudWatchLogGroups" \in F THEN {} ELSE {"GetAccountID"})

\* runCloudWatchLogsAudit, one unit's goroutine
LogsUnit(u) ==
  /\ mode = "logs" /\ pc = "wait" /\ unit[u].pc = "running"
  /\ \E F \in FaultSets(RegionCalls \cup {"GetCloudWatchLogGroups", "GetAccountID"}) :
       /\ F \subseteq LogsQueries(F)
       /\ Deliver(u, F, 2, LogsQueries(F), LogsRow(profileGroups[u], F))

\* entity.DataTransferReport
TransferReportOf(p) == [AccountID |-> AccountOf(p), Total |-> 100 * p]
ZeroTransferReport == [AccountID |-> 0, Total |-> 0]

\* The row runDataTransferDeepDive appends for a group
TransferRow(g, F) ==
  IF "GetDataTransferBreakdown" \in F
    THEN [Profile |-> g.Identifier, AccountID |-> 0, Report |-> ZeroTransferReport,
          Err |-> "GetDataTransferBreakdown failed"]
  ELSE [Profile |-> g.Identifier, AccountID |-> TransferReportOf(g.Profiles[1]).AccountID,
        Report |-> TransferReportOf(g.Profiles[1]), Err |-> ""]

\* runDataTransferDeepDive, one unit's goroutine
TransferUnit(u) ==
  /\ mode = "transfer" /\ pc = "wait" /\ unit[u].pc = "running"
  /\ \E F \in FaultSets({"GetDataTransferBreakdown"}) :
       Deliver(u, F, 1, {"GetDataTransferBreakdown"}, TransferRow(profileGroups[u], F))

\* entity.S3LifecycleAudit
S3AuditOf(id, accountID, p) ==
  [Profile |-> id, AccountID |-> accountID, TotalBuckets |-> p,
   NoLifecycleCount |-> p - 1]

ZeroS3Audit == [Profile |-> <<>>, AccountID |-> 0, TotalBuckets |-> 0,
                NoLifecycleCount |-> 0]

\* The row runS3LifecycleAudit appends for a group
S3Row(g, F) ==
  IF "GetS3LifecycleStatus" \in F
    THEN [Profile |-> g.Identifier, AccountID |-> 0, Audit |-> ZeroS3Audit,
          Err |-> "GetS3LifecycleStatus failed"]
  ELSE LET accountID == IF "GetAccountID" \in F THEN 0 ELSE AccountOf(g.Profiles[1])
       IN [Profile |-> g.Identifier, AccountID |-> accountID,
           Audit |-> S3AuditOf(g.Identifier, accountID, g.Profiles[1]), Err |-> ""]

\* runS3LifecycleAudit, one unit's goroutine
S3Unit(u) ==
  /\ mode = "s3" /\ pc = "wait" /\ unit[u].pc = "running"
  /\ \E F \in FaultSets({"GetAccountID", "GetS3LifecycleStatus"}) :
       Deliver(u, F, 2, {"GetAccountID", "GetS3LifecycleStatus"},
               S3Row(profileGroups[u], F))

\* entity.SavingsPlansSummary, entity.ReservationSummary
SPSummaryOf(p) == [AccountID |-> AccountOf(p), CoveragePercent |-> 10 * p]
RISummaryOf(p) == [AccountID |-> AccountOf(p), CoveragePercent |-> 20 * p]
ZeroSummary == [AccountID |-> 0, CoveragePercent |-> 0]

\* entity.CommitmentsReport
ZeroCommitmentsReport ==
  [AccountID |-> 0, Profile |-> <<>>, SPSummary |-> ZeroSummary,
   RISummary |-> ZeroSummary]

\* The row runCommitmentsReport appends for a group
CommitmentsRow(g, F) ==
  IF "GetSavingsPlansSummary" \in F
    THEN [Profile |-> g.Identifier, Report |-> ZeroCommitmentsReport, Err |-> "SP error"]
  ELSE IF "GetReservationSummary" \in F
    THEN [Profile |-> g.Identifier, Report |-> ZeroCommitmentsReport, Err |-> "RI error"]
  ELSE [Profile |-> g.Identifier,
        Report |-> [AccountID |-> SPSummaryOf(g.Profiles[1]).AccountID,
                    Profile |-> g.Identifier,
                    SPSummary |-> SPSummaryOf(g.Profiles[1]),
                    RISummary |-> RISummaryOf(g.Profiles[1])],
        Err |-> ""]

\* runCommitmentsReport, one unit's goroutine
CommitmentsUnit(u) ==
  /\ mode = "commitments" /\ pc = "wait" /\ unit[u].pc = "running"
  /\ \E F \in FaultSets({"GetSavingsPlansSummary", "GetReservationSummary"}) :
       Deliver(u, F, 2, {"GetSavingsPlansSummary", "GetReservationSummary"},
               CommitmentsRow(profileGroups[u], F))

\* A pointer field of entity.FullAuditReport: nil, or the address of a value
Absent(zero) == [present |-> FALSE, v |-> zero]
Present(v) == [present |-> TRUE, v |-> v]

\* The calls of one unit of runFullAuditReport
FullAuditCalls ==
  {"GetAccountID", "GetDataTransferBreakdown", "GetCloudWatchLogGroups",
   "GetS3LifecycleStatus", "GetSavingsPlansSummary", "GetReservationSummary"}
    \cup AuditChecks \cup RegionCalls

FullAuditReportAllOrNothing(g, F) ==
  LET p == g.Profiles[1]
      accountID == IF "GetAccountID" \in F THEN 0 ELSE AccountOf(p)
      whole == F \cap {"GetDataTransferBreakdown", "GetCloudWatchLogGroups",
                       "GetS3LifecycleStatus", "GetSavingsPlansSummary",
                       "GetReservationSummary"} = {}
  IN [Profile |-> g.Identifier, AccountID |-> accountID,
      MainAudit |-> Present(AuditDataOf(g.Identifier, accountID,
                                        [c \in AuditChecks |-> CheckResult(c, p, F)])),
      TransferAudit |-> IF whole THEN Present(TransferReportOf(p))
                        ELSE Absent(ZeroTransferReport),
      LogsAudit |-> IF whole THEN Present(LogsAuditOf(g.Identifier, accountID, p))
                    ELSE Absent(ZeroLogsAudit),
      S3Audit |-> IF whole THEN Present(S3AuditOf(g.Identifier, accountID, p))
                  ELSE Absent(ZeroS3Audit),
      CommitmentsAudit |->
        IF whole THEN Present([AccountID |-> accountID, Profile |-> g.Identifier,
                               SPSummary |-> SPSummaryOf(p),
                               RISummary |-> RISummaryOf(p)])
        ELSE Absent(ZeroCommitmentsReport)]

\* entity.FullAuditReport as the 6 tasks of a unit leave it, and after the
\* commitments slot is completed
FullAuditReportOf(g, F) ==
  LET p == g.Profiles[1]
      accountID == IF "GetAccountID" \in F THEN 0 ELSE AccountOf(p)
      sp == IF "GetSavingsPlansSummary" \in F THEN ZeroSummary ELSE SPSummaryOf(p)
      ri == IF "GetReservationSummary" \in F THEN ZeroSummary ELSE RISummaryOf(p)
  IN [Profile |-> g.Identifier, AccountID |-> accountID,
      MainAudit |-> Present(AuditDataOf(g.Identifier, accountID,
                                        [c \in AuditChecks |-> CheckResult(c, p, F)])),
      TransferAudit |-> IF "GetDataTransferBreakdown" \in F
                          THEN Absent(ZeroTransferReport)
                        ELSE Present(TransferReportOf(p)),
      LogsAudit |-> IF "GetCloudWatchLogGroups" \in F THEN Absent(ZeroLogsAudit)
                    ELSE Present(LogsAuditOf(g.Identifier, accountID, p)),
      S3Audit |-> IF "GetS3LifecycleStatus" \in F THEN Absent(ZeroS3Audit)
                  ELSE Present(S3AuditOf(g.Identifier, accountID, p)),
      CommitmentsAudit |->
        IF {"GetSavingsPlansSummary", "GetReservationSummary"} \subseteq F
          THEN Absent(ZeroCommitmentsReport)
        ELSE Present([AccountID |-> accountID, Profile |-> g.Identifier,
                      SPSummary |-> sp, RISummary |-> ri])]

\* runFullAuditReport, one unit's goroutine: GetAccountID, the 6 tasks to
\* innerWg.Wait(), the completion of the commitments slot, the append under mu.
\* The tasks write distinct fields of the unit's report, the two commitments tasks
\* under mu
FullAuditUnit(u) ==
  /\ mode = "fullaudit" /\ pc = "wait" /\ unit[u].pc = "running"
  /\ \E F \in FaultSets(FullAuditCalls) :
       Deliver(u, F, FullAuditSteps, FullAuditCalls,
               [Profile |-> profileGroups[u].Identifier,
                Report |-> FullAuditReportOf(profileGroups[u], F), Err |-> ""])

\* ------------------------------------------------------------------ the trend
\* runTrendAnalysis: the groups one after the other; a failed fetch is logged and
\* the loop continues
TrendStart ==
  /\ pc = "run" /\ mode = "trend"
  /\ unit' = [u \in Units |-> GoUnit]
  /\ pc' = "trend"
  /\ UNCHANGED <<inputVars, taskVars, runErr, resolverVars, mode, poolVars, resultVars,
                 outputVars, issued, faults>>

TrendFetch ==
  /\ pc = "trend"
  /\ \E u \in Units :
       /\ unit[u].pc = "running"
       /\ \A v \in Units : v < u => unit[v].pc = "done"
       /\ \E F \in FaultSets({"GetTrendData"}) :
            /\ faults' = faults + Cardinality(F)
            /\ unit' = [unit EXCEPT ![u].pc = "done", ![u].failed = F]
       /\ issued' = issued \cup {Query(u, "GetTrendData", Primary(u))}
  /\ UNCHANGED <<inputVars, taskVars, pc, runErr, resolverVars, mode, poolVars, resultVars,
                 outputVars>>

TrendReturn ==
  /\ pc = "trend"
  /\ \A u \in Units : unit[u].pc = "done"
  /\ pc' = "done"
  /\ UNCHANGED <<inputVars, taskVars, runErr, resolverVars, mode, unit, poolVars, resultVars,
                 outputVars, issued, faults>>

\* ------------------------------------------------- sort, render and export
Unsorted(rows) == {rows}

\* sort.Slice(rows, less by Profile): a permutation in which no row is before a
\* smaller one; the order of rows with equal keys is not specified
SortByProfile(rows) ==
  {[i \in 1..Len(rows) |-> rows[f[i]]] : f \in
     {g \in Perms(Len(rows)) :
        \A i, j \in 1..Len(rows) :
          i < j => ~SeqLess(rows[g[j]].Profile, rows[g[i]].Profile)}}

\* Whether the row's branch of the output loop is the error branch
IsErrorRow(m, r) ==
  CASE m = "dashboard" -> ~r.Success
    [] m = "audit" -> FALSE
    [] OTHER -> r.Err # ""

\* table.AddRow(...): the profile cell and the branch taken
TableRow(m, r) ==
  [Profile |-> r.Profile, kind |-> IF IsErrorRow(m, r) THEN "error" ELSE "data"]

\* The slice handed to the export repository
ExportItems(m, rows) ==
  CASE m \in {"dashboard", "audit"} -> rows
    [] OTHER -> SelectSeq(rows, LAMBDA r : r.Err = "")

SortResults ==
  /\ pc = "collected"
  /\ results' \in SortByProfile(results)
  /\ pc' = "sorted"
  /\ UNCHANGED <<inputVars, taskVars, runErr, resolverVars, mode, unit, poolVars, arrival,
                 outputVars, issued, faults>>

RenderTable ==
  /\ pc = "sorted"
  /\ table' = [i \in 1..Len(results) |-> TableRow(mode, results[i])]
  /\ pc' = "rendered"
  /\ UNCHANGED <<inputVars, taskVars, runErr, resolverVars, mode, unit, poolVars, resultVars,
                 exported, issued, faults>>

\* if args.ReportName != "" { ... export ... }: args.ReportName is read here only,
\* and its value is drawn where it is read
ExportReports ==
  /\ pc = "rendered"
  /\ \E reportName \in BOOLEAN :
       exported' = IF reportName
                   THEN [called |-> TRUE, items |-> ExportItems(mode, results)]
                   ELSE exported
  /\ pc' = "done"
  /\ UNCHANGED <<inputVars, taskVars, runErr, resolverVars, mode, unit, poolVars, resultVars,
                 table, issued, faults>>

\* ----------------------------------------------------------- specification
InitRun ==
  /\ pc = "start" /\ runErr = NoError
  /\ commandLine = <<>> /\ configFile = <<>>
  /\ tasks = <<>> /\ local = <<>>
  /\ profilesToScan = <<>> /\ lookup = <<>>
  /\ accountToProfiles = [a \in Accounts |-> <<>>]
  /\ profileGroups = <<>>
  /\ mode = "none" /\ unit = <<>>
  /\ jobs = <<>> /\ jobsClosed = FALSE /\ resultsChan = <<>>
  /\ workers = [started |-> 0, idle |-> 0, exited |-> 0]
  /\ results = <<>> /\ arrival = <<>> /\ table = <<>>
  /\ exported = [called |-> FALSE, items |-> <<>>]
  /\ issued = {} /\ faults = 0

\* A run over all available profiles, with at most one report flag
Init ==
  /\ InitRun
  /\ \E n \in 1..NProfiles : available = [i \in 1..n |-> i]
  /\ \E c, rg \in BOOLEAN :
       \E f \in {{}} \cup {{x} : x \in ReportFlags} :
         args = [All |-> TRUE, Profiles |-> <<>>, Combine |-> c, Flags |-> f,
                 Regions |-> rg]

Resolve ==
  \/ InitializeSelect
  \/ VerifyCredentials
  \/ \E i \in DOMAIN lookup : LookupAccount(i)
  \/ BuildGroups

Dashboard ==
  \/ DashStart
  \/ DashEnqueue
  \/ DashCloseJobs
  \/ WorkerTake
  \/ WorkerExit
  \/ \E u \in DOMAIN unit : ProcessSingleProfile(u)
  \/ \E u \in DOMAIN unit : ProcessCombinedProfile(u)
  \/ \E u \in DOMAIN unit : \E i \in DOMAIN profileGroups[u].Profiles : DashMember(u, i)
  \/ \E u \in DOMAIN unit : DashJoin(u)
  \/ DashCollect
  \/ DashWait

Pipelines ==
  \/ GoStart
  \/ \E u \in DOMAIN unit : AuditRunChecks(u)
  \/ \E u \in DOMAIN unit : AuditAssemble(u)
  \/ \E u \in DOMAIN unit : LogsUnit(u)
  \/ \E u \in DOMAIN unit : TransferUnit(u)
  \/ \E u \in DOMAIN unit : S3Unit(u)
  \/ \E u \in DOMAIN unit : CommitmentsUnit(u)
  \/ \E u \in DOMAIN unit : FullAuditUnit(u)
  \/ GoWait
  \/ TrendStart
  \/ TrendFetch
  \/ TrendReturn

Output ==
  \/ SortResults
  \/ RenderTable
  \/ ExportReports

Next ==
  \/ Resolve
  \/ Dispatch
  \/ Dashboard
  \/ Output
  \/ Pipelines

Spec == Init /\ [][Next]_vars

\* ------------------------------------------------- the cost dashboard alone
\* A run of the cost dashboard over all available profiles
InitDashboard ==
  /\ InitRun
  /\ \E n \in 1..NProfiles : available = [i \in 1..n |-> i]
  /\ \E c, rg \in BOOLEAN :
       args = [All |-> TRUE, Profiles |-> <<>>, Combine |-> c, Flags |-> {},
               Regions |-> rg]

NextDashboard ==
  \/ Resolve
  \/ Dispatch
  \/ Dashboard
  \/ Output

SpecDashboard == InitDashboard /\ [][NextDashboard]_vars

\* ----------------------------------------------------- the full audit alone
\* A run of the full audit over all available profiles
InitFullAudit ==
  /\ InitRun
  /\ \E n \in 1..NProfiles : available = [i \in 1..n |-> i]
  /\ \E c, rg \in BOOLEAN :
       args = [All |-> TRUE, Profiles |-> <<>>, Combine |-> c,
               Flags |-> {"FullAudit"}, Regions |-> rg]

NextFullAudit ==
  \/ Resolve
  \/ Dispatch
  \/ GoStart
  \/ \E u \in DOMAIN unit : FullAuditUnit(u)
  \/ GoWait
  \/ Output

SpecFullAudit == InitFullAudit /\ [][NextFullAudit]_vars

\* ------------------------------------------- the dispatch over any flag set
\* RunDashboard after initializeProfiles has returned a batch of at most one
\* group, with any set of report flags
InitSelect ==
  /\ pc = "dispatch" /\ runErr = NoError
  /\ commandLine = <<>> /\ configFile = <<>>
  /\ tasks = <<>> /\ local = <<>>
  /\ available = <<DefaultProfile>>
  /\ \E f \in SUBSET ReportFlags :
       args = [All |-> TRUE, Profiles |-> <<>>, Combine |-> FALSE, Flags |-> f,
               Regions |-> TRUE]
  /\ profilesToScan = <<DefaultProfile>> /\ lookup = <<>>
  /\ accountToProfiles = [a \in Accounts |-> <<>>]
  /\ profileGroups \in {<<>>, <<SingleGroup(DefaultProfile)>>}
  /\ mode = "none" /\ unit = <<>>
  /\ jobs = <<>> /\ jobsClosed = FALSE /\ resultsChan = <<>>
  /\ workers = [started |-> 0, idle |-> 0, exited |-> 0]
  /\ results = <<>> /\ arrival = <<>> /\ table = <<>>
  /\ exported = [called |-> FALSE, items |-> <<>>]
  /\ issued = {} /\ faults = 0

\* The dispatch and the first step of the pipeline it calls
NextSelect ==
  \/ Dispatch
  \/ DashStart
  \/ GoStart
  \/ TrendStart

SpecSelect == InitSelect /\ [][NextSelect]_vars

\* ------------------------------------- the goroutine-per-group fan-out, large
\* The longest batch drawn: one unit more than the workers of the pool
MaxBatch == 11

\* A batch of n groups of the default profile, as initializeProfiles returns it for
\* a --profiles list that names the profile n times
RepeatedBatch(n) == [i \in 1..n |-> SingleGroup(DefaultProfile)]

\* RunDashboard after initializeProfiles, for the audit and the full audit (the long
\* batch for the full audit, whose unit is one step); no repository call of the run
\* fails
InitFanOut ==
  /\ pc = "dispatch" /\ runErr = NoError
  /\ commandLine = <<>> /\ configFile = <<>>
  /\ tasks = <<>> /\ local = <<>>
  /\ available = <<DefaultProfile>>
  /\ \E n \in {2, MaxBatch} :
       /\ \E f \in IF n = MaxBatch THEN {{"FullAudit"}} ELSE {{"Audit"}, {"FullAudit"}} :
            args = [All |-> FALSE, Profiles |-> [i \in 1..n |-> DefaultProfile],
                    Combine |-> FALSE, Flags |-> f, Regions |-> TRUE]
       /\ profilesToScan = [i \in 1..n |-> DefaultProfile]
       /\ profileGroups = RepeatedBatch(n)
  /\ lookup = <<>>
  /\ accountToProfiles = [a \in Accounts |-> <<>>]
  /\ mode = "none" /\ unit = <<>>
  /\ jobs = <<>> /\ jobsClosed = FALSE /\ resultsChan = <<>>
  /\ workers = [started |-> 0, idle |-> 0, exited |-> 0]
  /\ results = <<>> /\ arrival = <<>> /\ table = <<>>
  /\ exported = [called |-> FALSE, items |-> <<>>]
  /\ issued = {} /\ faults = MaxFaults

NextFanOut ==
  \/ Dispatch
  \/ GoStart
  \/ \E u \in DOMAIN unit : AuditRunChecks(u)
  \/ \E u \in DOMAIN unit : AuditAssemble(u)
  \/ \E u \in DOMAIN unit : FullAuditUnit(u)
  \/ GoWait

SpecFanOut == InitFanOut /\ [][NextFanOut]_vars

\* ------------------------------------------- the worker pool, large batches
\* runCostDashboard called with a batch of fewer or of more units than workers; no
\* repository call of the run fails
InitPool ==
  /\ pc = "run" /\ runErr = NoError
  /\ commandLine = <<>> /\ configFile = <<>>
  /\ tasks = <<>> /\ local = <<>>
  /\ available = <<DefaultProfile>>
  /\ \E n \in {2, MaxBatch} :
       /\ args = [All |-> FALSE, Profiles |-> [i \in 1..n |-> DefaultProfile],
                  Combine |-> FALSE, Flags |-> {}, Regions |-> TRUE]
       /\ profilesToScan = [i \in 1..n |-> DefaultProfile]
       /\ profileGroups = RepeatedBatch(n)
  /\ lookup = <<>>
  /\ accountToProfiles = [a \in Accounts |-> <<>>]
  /\ mode = "dashboard" /\ unit = <<>>
  /\ jobs = <<>> /\ jobsClosed = FALSE /\ resultsChan = <<>>
  /\ workers = [started |-> 0, idle |-> 0, exited |-> 0]
  /\ results = <<>> /\ arrival = <<>> /\ table = <<>>
  /\ exported = [called |-> FALSE, items |-> <<>>]
  /\ issued = {} /\ faults = MaxFaults

NextPool ==
  \/ DashStart
  \/ DashEnqueue
  \/ DashCloseJobs
  \/ WorkerTake
  \/ WorkerExit
  \/ \E u \in DOMAIN unit : ProcessSingleProfile(u)
  \/ DashCollect
  \/ DashWait

\* The Go scheduler runs a goroutine that can take a step whenever there is one:
\* the main goroutine, a worker, or processProfileJob, which returns
FairPool == WF_vars(NextPool)

SpecPool == InitPool /\ [][NextPool]_vars /\ FairPool

\* -------------------------------------------- inside one repository call
\* The run is at position p of pipeline m, over the batch groups (for RunAt, one
\* group of the default profile); the goroutines of the call at hand are in tasks,
\* the variables they share in local
RunOver(p, m, groups) ==
  /\ pc = p /\ mode = m /\ runErr = NoError
  /\ commandLine = <<>> /\ configFile = <<>>
  /\ available = <<DefaultProfile>>
  /\ args = [All |-> FALSE, Profiles |-> [i \in DOMAIN groups |-> groups[i].Profiles[1]], Combine |-> FALSE,
             Flags |-> {}, Regions |-> TRUE]
  /\ profilesToScan = [i \in DOMAIN groups |-> groups[i].Profiles[1]] /\ lookup = <<>>
  /\ accountToProfiles = [a \in Accounts |-> <<>>]
  /\ profileGroups = groups
  /\ unit = <<>>
  /\ jobs = <<>> /\ jobsClosed = FALSE /\ resultsChan = <<>>
  /\ workers = [started |-> 0, idle |-> 0, exited |-> 0]
  /\ results = <<>> /\ arrival = <<>> /\ table = <<>>
  /\ exported = [called |-> FALSE, items |-> <<>>]
  /\ issued = {} /\ faults = 0

RunAt(p, m) == RunOver(p, m, <<SingleGroup(DefaultProfile)>>)

runVars ==
  <<commandLine, configFile, args, available, pc, runErr, profilesToScan, lookup,
    accountToProfiles, profileGroups, mode, unit, jobs, jobsClosed, resultsChan,
    workers, results, arrival, table, exported, issued, faults>>

\* ------------------------------------------------------------ GetEC2Summary
\* The longest region list, the most pages of a region's listing, and the cap of
\* the count of page requests of a region
MaxRegions == 2
MaxPages == 2
MaxRequests == 3

\* paginator.HasMorePages(): the first page, or a token of the page before
HasMorePages(t) == t.firstPage \/ t.nextToken # 0

\* GetEC2Summary is called with n regions; a region's listing has 1..MaxPages pages
\* of one instance each, and a region is healthy or refuses every page request
InitEC2 ==
  /\ RunAt("GetEC2Summary", "dashboard")
  /\ \E n \in 1..MaxRegions :
       /\ tasks = [r \in 1..n |->
                     [pc |-> "client", firstPage |-> TRUE, nextToken |-> 0,
                      requests |-> 0, failed |-> 0]]
       /\ \E h \in [1..n -> {"ok", "denied"}] : \E np \in [1..n -> 1..MaxPages] :
            local = [health |-> h, pages |-> np, summary |-> 0, transient |-> 0,
                     returned |-> FALSE]

\* client, err := r.getServiceClient(...); if err != nil { return }
EC2Client(r) ==
  /\ tasks[r].pc = "client"
  /\ \E ok \in BOOLEAN :
       tasks' = [tasks EXCEPT ![r].pc = IF ok THEN "pages" ELSE "exited"]
  /\ UNCHANGED <<runVars, local>>

\* for paginator.HasMorePages() { output, err := paginator.NextPage(ctx): the loop
\* condition holds and the page request is sent
EC2Request(r) ==
  /\ tasks[r].pc = "pages" /\ HasMorePages(tasks[r])
  /\ tasks' = [tasks EXCEPT ![r].pc = "request",
                            ![r].requests = Min(@ + 1, MaxRequests)]
  /\ UNCHANGED <<runVars, local>>

\* NextPage returns: on an error continue, back at the loop condition with the
\* paginator as it was; else the page merged under mu and the paginator advanced
EC2NextPage(r) ==
  /\ tasks[r].pc = "request"
  /\ \E ok \in (IF local.health[r] = "denied" THEN {FALSE}
                ELSE IF local.transient < MaxFaults THEN BOOLEAN ELSE {TRUE}) :
       IF ok
       THEN LET page == IF tasks[r].firstPage THEN 1 ELSE tasks[r].nextToken
            IN /\ tasks' = [tasks EXCEPT
                      ![r].pc = "pages",
                      ![r].firstPage = FALSE,
                      ![r].nextToken = IF page < local.pages[r] THEN page + 1 ELSE 0]
               /\ local' = [local EXCEPT !.summary = @ + 1]
       ELSE /\ tasks' = [tasks EXCEPT ![r].pc = "pages",
                                      ![r].failed = Min(@ + 1, MaxRequests)]
            /\ local' = [local EXCEPT
                           !.transient = IF local.health[r] = "denied" THEN @ ELSE @ + 1]
  /\ UNCHANGED runVars

\* The loop ends: defer wg.Done()
EC2PagesEnd(r) ==
  /\ tasks[r].pc = "pages" /\ ~HasMorePages(tasks[r])
  /\ tasks' = [tasks EXCEPT ![r].pc = "exited"]
  /\ UNCHANGED <<runVars, local>>

\* wg.Wait() and return summary, nil
EC2Return ==
  /\ ~local.returned
  /\ \A r \in DOMAIN tasks : tasks[r].pc = "exited"
  /\ local' = [local EXCEPT !.returned = TRUE]
  /\ UNCHANGED <<runVars, tasks>>

NextEC2 ==
  \/ \E r \in DOMAIN tasks : EC2Client(r)
  \/ \E r \in DOMAIN tasks : EC2Request(r)
  \/ \E r \in DOMAIN tasks : EC2NextPage(r)
  \/ \E r \in DOMAIN tasks : EC2PagesEnd(r)
  \/ EC2Return

\* The Go scheduler runs every region's goroutine and the caller
FairEC2 ==
  /\ \A r \in 1..MaxRegions : WF_vars(r \in DOMAIN tasks /\ EC2Client(r))
  /\ \A r \in 1..MaxRegions : WF_vars(r \in DOMAIN tasks /\ EC2Request(r))
  /\ \A r \in 1..MaxRegions : WF_vars(r \in DOMAIN tasks /\ EC2NextPage(r))
  /\ \A r \in 1..MaxRegions : WF_vars(r \in DOMAIN tasks /\ EC2PagesEnd(r))
  /\ WF_vars(EC2Return)

SpecEC2 == InitEC2 /\ [][NextEC2]_vars /\ FairEC2

\* -------------------------------------------------------------- GetCostData
\* The three goroutines of GetCostData, in the order the code starts them
SubQueries == <<"current", "previous", "services">>

\* errChan := make(chan error, 3)
ErrChanCap == 3

\* The field a sub-query assigns, and the value the data source has for it
SubQueryStore(costData, k, p) ==
  CASE SubQueries[k] = "current" -> [costData EXCEPT !.CurrentMonthCost = CostCur(p)]
    [] SubQueries[k] = "previous" -> [costData EXCEPT !.LastMonthCost = CostPrev(p)]
    [] OTHER -> [costData EXCEPT !.CurrentMonthCostByService = <<CostCur(p)>>]

CostReturnPartial(costData, errs, p, F) ==
  [data |-> costData, err |-> IF Len(errs) > 0 THEN Head(errs) ELSE ""]

\* if len(errChan) > 0 { return entity.CostData{}, <-errChan }, else the account
\* and the budgets, their errors dropped, and return costData, nil
CostReturn(costData, errs, p, F) ==
  IF Len(errs) > 0 THEN [data |-> ZeroCostData, err |-> Head(errs)]
  ELSE [data |-> [costData EXCEPT
                    !.AccountID = IF "GetCostData.account" \in F THEN 0 ELSE AccountOf(p),
                    !.Budgets = IF "GetCostData.budgets" \in F THEN <<>> ELSE BudgetsOf(p)],
        err |-> ""]

\* GetCostData is called for a profile
InitCost ==
  /\ RunAt("GetCostData", "dashboard")
  /\ tasks = [k \in DOMAIN SubQueries |-> [pc |-> "idle", ok |-> TRUE]]
  /\ \E p \in Names :
       local = [pc |-> "enter", profile |-> p, costData |-> ZeroCostData,
                errChan |-> <<>>, closed |-> FALSE,
                ret |-> [data |-> ZeroCostData, err |-> ""]]

\* getServiceClient and parseTagFilter, each returning entity.CostData{}, err on an
\* error; then the three goroutines are started
CostEnter ==
  /\ local.pc = "enter"
  /\ \E e \in {"", "client", "tags"} :
       IF e = ""
       THEN /\ local' = [local EXCEPT !.pc = "spawned"]
            /\ tasks' = [k \in DOMAIN tasks |-> [tasks[k] EXCEPT !.pc = "start"]]
       ELSE /\ local' = [local EXCEPT !.pc = "returned",
                                      !.ret = [data |-> ZeroCostData, err |-> e]]
            /\ UNCHANGED tasks
  /\ UNCHANGED runVars

\* cost, err := r.getCostForPeriod(...) and its likes
SubQueryFetch(k) ==
  /\ tasks[k].pc = "start"
  /\ \E ok \in BOOLEAN :
       tasks' = [tasks EXCEPT ![k] = [pc |-> IF ok THEN "got" ELSE "erred", ok |-> ok]]
  /\ UNCHANGED <<runVars, local>>

\* costData.X = value, and the deferred wg.Done()
SubQueryAssign(k) ==
  /\ tasks[k].pc = "got"
  /\ local' = [local EXCEPT !.costData = SubQueryStore(@, k, local.profile)]
  /\ tasks' = [tasks EXCEPT ![k].pc = "exited"]
  /\ UNCHANGED runVars

\* errChan <- fmt.Errorf(...); return: the send waits while the buffer is full
SubQuerySend(k) ==
  /\ tasks[k].pc = "erred"
  /\ Len(local.errChan) < ErrChanCap
  /\ local' = [local EXCEPT !.errChan = Append(@, SubQueries[k])]
  /\ tasks' = [tasks EXCEPT ![k].pc = "exited"]
  /\ UNCHANGED runVars

\* wg.Wait(), close(errChan) and the return
CostJoin ==
  /\ local.pc = "spawned"
  /\ \A k \in DOMAIN tasks : tasks[k].pc = "exited"
  /\ \E F \in SUBSET {"GetCostData.account", "GetCostData.budgets"} :
       local' = [local EXCEPT
                   !.pc = "returned", !.closed = TRUE,
                   !.ret = CostReturn(local.costData, local.errChan, local.profile, F)]
  /\ UNCHANGED <<runVars, tasks>>

NextCost ==
  \/ CostEnter
  \/ \E k \in DOMAIN tasks : SubQueryFetch(k)
  \/ \E k \in DOMAIN tasks : SubQueryAssign(k)
  \/ \E k \in DOMAIN tasks : SubQuerySend(k)
  \/ CostJoin

SpecCost == InitCost /\ [][NextCost]_vars

\* ------------------------------------------ the 8 checks of one unit, by task
\* The checks in the order the code names them
CheckOrder ==
  <<"GetNatGatewayCost", "GetIdleLoadBalancers", "GetStoppedInstances",
    "GetUnusedVolumes", "GetUnusedEIPs", "GetUntaggedResources",
    "GetUnusedVpcEndpoints", "GetBudgets">>

\* The goroutines that issue the checks of a unit, each with the calls it makes in
\* turn: runAuditReport starts one goroutine per check, and the main-audit goroutine
\* of runFullAuditReport makes the 8 calls one after the other
CheckTasks(m) ==
  IF m = "audit"
    THEN [k \in 1..AuditSteps |-> [pc |-> "ready", todo |-> <<CheckOrder[k]>>]]
  ELSE <<[pc |-> "ready", todo |-> CheckOrder]>>

AnyCheckDone(ts) == \E t \in DOMAIN ts : ts[t].pc \in {"exited", "filled"}

\* auditWg.Wait() of runAuditReport; in runFullAuditReport, the 8 calls above the
\* assignment of report.MainAudit have returned
AllChecksDone(ts) == \A t \in DOMAIN ts : ts[t].pc \in {"exited", "filled"}

InFlightChecks(ts) == Cardinality({t \in DOMAIN ts : ts[t].pc = "inflight"})

\* One unit of the audit or of the full audit at the start of its check goroutines;
\* the full audit has asked for the account before
InitChecks ==
  /\ \E m \in {"audit", "fullaudit"} :
       /\ RunAt("wait", m)
       /\ tasks = CheckTasks(m)
       /\ \E acc \in (IF m = "audit" THEN {0} ELSE {0, AccountOf(DefaultProfile)}) :
            local = [calls |-> [c \in AuditChecks |-> 0],
                     issuer |-> [c \in AuditChecks |-> 0],
                     vals |-> [c \in AuditChecks |-> <<>>],
                     failed |-> {}, bar |-> 0, peak |-> 0, accountID |-> acc,
                     assembled |-> FALSE, row |-> <<>>]

\* The goroutine calls the repository for its next check
CheckCall(t) ==
  /\ tasks[t].pc = "ready"
  /\ LET c == Head(tasks[t].todo)
         ts == [tasks EXCEPT ![t].pc = "inflight"]
     IN /\ tasks' = ts
        /\ local' = [local EXCEPT !.calls[c] = @ + 1, !.issuer[c] = t,
                                  !.peak = IF InFlightChecks(ts) > @
                                           THEN InFlightChecks(ts) ELSE @]
  /\ UNCHANGED runVars

\* x, _ = uc.awsRepo.GetX(...): the value kept, the error dropped; in the audit the
\* goroutine then increments the bar and ends
CheckReturn(t) ==
  /\ tasks[t].pc = "inflight"
  /\ LET c == Head(tasks[t].todo)
         rest == Tail(tasks[t].todo)
     IN \E ok \in (IF Cardinality(local.failed) < MaxFaults THEN BOOLEAN ELSE {TRUE}) :
          /\ tasks' = [tasks EXCEPT
                         ![t].todo = rest,
                         ![t].pc = IF rest # <<>> THEN "ready"
                                   ELSE IF mode = "audit" THEN "exited" ELSE "filled"]
          /\ local' = [local EXCEPT
                         !.vals[c] = CheckResult(c, DefaultProfile,
                                                 IF ok THEN {} ELSE {c}),
                         !.failed = IF ok THEN @ ELSE @ \cup {c},
                         !.bar = IF mode = "audit" THEN @ + 1 ELSE @]
  /\ UNCHANGED runVars

\* The unit's audit data from the 8 values: in runAuditReport after auditWg.Wait()
\* and GetAccountID, in runFullAuditReport report.MainAudit = &entity.AuditData{...}
\* at the end of the goroutine, with its deferred bar.Increment()
ChecksAssemble ==
  /\ ~local.assembled
  /\ AllChecksDone(tasks)
  /\ \E acc \in (IF mode = "audit" THEN {0, AccountOf(DefaultProfile)}
                 ELSE {local.accountID}) :
       local' = [local EXCEPT
                   !.assembled = TRUE, !.accountID = acc,
                   !.bar = IF mode = "audit" THEN @ ELSE @ + 1,
                   !.row = AuditDataOf(<<DefaultProfile>>, acc, local.vals)]
  /\ tasks' = [t \in DOMAIN tasks |-> [tasks[t] EXCEPT !.pc = "exited"]]
  /\ UNCHANGED runVars

NextChecks ==
  \/ \E t \in DOMAIN tasks : CheckCall(t)
  \/ \E t \in DOMAIN tasks : CheckReturn(t)
  \/ ChecksAssemble

SpecChecks == InitChecks /\ [][NextChecks]_vars

\* ------------------------------------- the 6 tasks of a full-audit unit, by step
\* The tasks of a unit in the order the code starts them, and the call of each
FullTasks == <<"MainAudit", "TransferAudit", "LogsAudit", "S3Audit", "SP", "RI">>

FullTaskCall ==
  <<"GetNatGatewayCost", "GetDataTransferBreakdown", "GetCloudWatchLogGroups",
    "GetS3LifecycleStatus", "GetSavingsPlansSummary", "GetReservationSummary">>

\* entity.FullAuditReport{Profile: g.Identifier, AccountID: accountID}
NewFullAuditReport(g, accountID) ==
  [Profile |-> g.Identifier, AccountID |-> accountID,
   MainAudit |-> Absent(AuditDataOf(<<>>, 0, [c \in AuditChecks |-> <<>>])),
   TransferAudit |-> Absent(ZeroTransferReport),
   LogsAudit |-> Absent(ZeroLogsAudit),
   S3Audit |-> Absent(ZeroS3Audit),
   CommitmentsAudit |-> Absent(ZeroCommitmentsReport)]

MuAlwaysFree(l) == TRUE

\* mu.Lock() returns: no goroutine holds the mutex of runFullAuditReport
MuFree(l) == l.mu = <<>>

CommitStoreFresh(slot, sawNil, t, p) ==
  Present(IF FullTasks[t] = "SP"
            THEN [ZeroCommitmentsReport EXCEPT !.SPSummary = SPSummaryOf(p)]
          ELSE [ZeroCommitmentsReport EXCEPT !.RISummary = RISummaryOf(p)])

\* if report.CommitmentsAudit == nil { report.CommitmentsAudit = &CommitmentsReport{} }
\* and the assignment of the task's own summary
CommitStore(slot, sawNil, t, p) ==
  LET base == IF sawNil THEN ZeroCommitmentsReport ELSE slot.v
  IN Present(IF FullTasks[t] = "SP" THEN [base EXCEPT !.SPSummary = SPSummaryOf(p)]
             ELSE [base EXCEPT !.RISummary = RISummaryOf(p)])

\* runFullAuditReport with every unit's goroutine at innerWg.Add: one unit whose
\* calls may fail, or two units none of whose calls fails
InitFullTasks ==
  /\ \E n \in 1..2 :
       /\ RunOver("wait", "fullaudit", RepeatedBatch(n))
       /\ tasks = [u \in 1..n |->
                     [t \in DOMAIN FullTasks |-> [pc |-> "start", ok |-> TRUE,
                                                  sawNil |-> FALSE]]]
       /\ \E acc \in (IF n = 1 THEN {0, AccountOf(DefaultProfile)}
                      ELSE {AccountOf(DefaultProfile)}) :
            local = [mu |-> <<>>,
                     report |-> [u \in 1..n |->
                                   NewFullAuditReport(SingleGroup(DefaultProfile), acc)],
                     failed |-> [u \in 1..n |->
                                   IF acc = 0 THEN {"GetAccountID"} ELSE {}],
                     faults |-> IF n = 1 THEN (IF acc = 0 THEN 1 ELSE 0) ELSE MaxFaults,
                     unitpc |-> [u \in 1..n |-> "tasks"],
                     bar |-> [u \in 1..n |-> 0],
                     unlocked |-> {},
                     rows |-> <<>>]

\* Task 1: the 8 checks and report.MainAudit = &entity.AuditData{...}, with no lock
FullMainTask(u) ==
  /\ tasks[u][1].pc = "start"
  /\ \E F \in SubsetsUpTo(AuditChecks, MaxFaults - local.faults) :
       local' = [local EXCEPT
          !.faults = @ + Cardinality(F),
          !.failed[u] = @ \cup F,
          !.bar[u] = @ + 1,
          !.unlocked = IF local.mu = <<u, 1>> THEN @ ELSE @ \cup {<<u, 1>>},
          !.report[u].MainAudit =
             Present(AuditDataOf(profileGroups[u].Identifier, local.report[u].AccountID,
                                 [c \in AuditChecks |-> CheckResult(c, Primary(u), F)]))]
  /\ tasks' = [tasks EXCEPT ![u][1].pc = "exited"]
  /\ UNCHANGED runVars

\* Tasks 2 to 4: if x, err := ...; err == nil { report.X = &x }, with no lock
FullSlotTask(u, t) ==
  /\ t \in 2..4 /\ tasks[u][t].pc = "start"
  /\ \E ok \in (IF local.faults < MaxFaults THEN BOOLEAN ELSE {TRUE}) :
       /\ tasks' = [tasks EXCEPT ![u][t].pc = "exited", ![u][t].ok = ok]
       /\ local' =
            IF ok
            THEN [local EXCEPT
                    !.bar[u] = @ + 1,
                    !.unlocked = IF local.mu = <<u, t>> THEN @ ELSE @ \cup {<<u, t>>},
                    !.report[u] =
                       CASE t = 2 -> [@ EXCEPT !.TransferAudit =
                                        Present(TransferReportOf(Primary(u)))]
                         [] t = 3 -> [@ EXCEPT !.LogsAudit =
                                        Present(LogsAuditOf(profileGroups[u].Identifier,
                                                            local.report[u].AccountID, Primary(u)))]
                         [] OTHER -> [@ EXCEPT !.S3Audit =
                                        Present(S3AuditOf(profileGroups[u].Identifier,
                                                          local.report[u].AccountID, Primary(u)))]]
            ELSE [local EXCEPT !.bar[u] = @ + 1, !.faults = @ + 1,
                               !.failed[u] = @ \cup {FullTaskCall[t]}]
  /\ UNCHANGED runVars

\* Tasks 5 and 6: the call; on an error the task ends with its deferred Increment
CommitFetch(u, t) ==
  /\ t \in 5..6 /\ tasks[u][t].pc = "start"
  /\ \E ok \in (IF local.faults < MaxFaults THEN BOOLEAN ELSE {TRUE}) :
       /\ tasks' = [tasks EXCEPT ![u][t].pc = IF ok THEN "want" ELSE "exited",
                                 ![u][t].ok = ok]
       /\ local' = IF ok THEN local
                   ELSE [local EXCEPT !.bar[u] = @ + 1, !.faults = @ + 1,
                                      !.failed[u] = @ \cup {FullTaskCall[t]}]
  /\ UNCHANGED runVars

\* mu.Lock() and the test report.CommitmentsAudit == nil
CommitLock(u, t) ==
  /\ t \in 5..6 /\ tasks[u][t].pc = "want"
  /\ MuFree(local)
  /\ local' = [local EXCEPT !.mu = <<u, t>>]
  /\ tasks' = [tasks EXCEPT ![u][t].pc = "locked",
                            ![u][t].sawNil = ~local.report[u].CommitmentsAudit.present]
  /\ UNCHANGED runVars

\* The slot created if it was absent, the summary assigned, mu.Unlock()
CommitWrite(u, t) ==
  /\ t \in 5..6 /\ tasks[u][t].pc = "locked"
  /\ local' = [local EXCEPT
       !.report[u].CommitmentsAudit = CommitStore(@, tasks[u][t].sawNil, t, Primary(u)),
       !.unlocked = IF local.mu = <<u, t>> THEN @ ELSE @ \cup {<<u, t>>},
       !.mu = IF @ = <<u, t>> THEN <<>> ELSE @,
       !.bar[u] = @ + 1]
  /\ tasks' = [tasks EXCEPT ![u][t].pc = "exited"]
  /\ UNCHANGED runVars

\* innerWg.Wait() and the completion of the commitments slot
FullJoin(u) ==
  /\ local.unitpc[u] = "tasks"
  /\ \A t \in DOMAIN FullTasks : tasks[u][t].pc = "exited"
  /\ local' = [local EXCEPT
       !.unitpc[u] = "joined",
       !.report[u].CommitmentsAudit =
          IF @.present
            THEN Present([@.v EXCEPT !.Profile = profileGroups[u].Identifier,
                                     !.AccountID = local.report[u].AccountID])
          ELSE @]
  /\ UNCHANGED <<runVars, tasks>>

\* mu.Lock(); results = append(results, row{...}); mu.Unlock()
FullAppend(u) ==
  /\ local.unitpc[u] = "joined"
  /\ MuFree(local)
  /\ local' = [local EXCEPT
       !.unitpc[u] = "done",
       !.rows = AppendResult(@, [Profile |-> profileGroups[u].Identifier,
                                 Report |-> local.report[u], Err |-> ""])]
  /\ UNCHANGED <<runVars, tasks>>

NextFullTasks ==
  \/ \E u \in DOMAIN tasks : FullMainTask(u)
  \/ \E u \in DOMAIN tasks : \E t \in 2..4 : FullSlotTask(u, t)
  \/ \E u \in DOMAIN tasks : \E t \in 5..6 : CommitFetch(u, t)
  \/ \E u \in DOMAIN tasks : \E t \in 5..6 : CommitLock(u, t)
  \/ \E u \in DOMAIN tasks : \E t \in 5..6 : CommitWrite(u, t)
  \/ \E u \in DOMAIN tasks : FullJoin(u)
  \/ \E u \in DOMAIN tasks : FullAppend(u)

SpecFullTasks == InitFullTasks /\ [][NextFullTasks]_vars

\* ------------------------------------------ the resolver over every request
\* The longest --profiles list drawn
MaxRequested == 2

\* What GetAWSProfiles can return: the names of a map, sorted, never empty
AvailableLists == {SetToSeq(S) : S \in (SUBSET Names) \ {{}}}

\* The lists of at most k names of S, repeats included
RECURSIVE SeqsUpTo(_, _)
SeqsUpTo(S, k) ==
  IF k = 0 THEN {<<>>}
  ELSE LET prev == SeqsUpTo(S, k - 1)
       IN prev \cup {Append(s, x) : s \in prev, x \in S}

\* initializeProfiles on any --all, --profiles and --combine over any profile list
InitResolve ==
  /\ InitRun
  /\ available \in AvailableLists
  /\ \E all, c \in BOOLEAN :
       \E ps \in SeqsUpTo(Names, MaxRequested) :
         args = [All |-> all, Profiles |-> ps, Combine |-> c, Flags |-> {},
                 Regions |-> TRUE]

NextResolve ==
  \/ InitializeSelect
  \/ VerifyCredentials
  \/ \E i \in DOMAIN lookup : LookupAccount(i)
  \/ BuildGroups

SpecResolve == InitResolve /\ [][NextResolve]_vars

\* ------------------------------------ populateProfileData over any cost pair
\* The largest small amount drawn, in cents
MaxCents == 3

\* The 0.01 of calculatePercentageChange, in cents
Epsilon == 1

\* The period costs drawn: the amounts around the epsilon, credits included, and
\* 50, 100 and 150 dollars
Amounts == (-MaxCents..MaxCents) \cup {5000, 10000, 15000}

\* One single-profile job of the cost dashboard whose cost fetch has returned
InitPercent ==
  /\ pc = "populate" /\ runErr = NoError
  /\ commandLine = <<>> /\ configFile = <<>>
  /\ tasks = <<>> /\ local = <<>>
  /\ available = <<DefaultProfile>>
  /\ args = [All |-> TRUE, Profiles |-> <<>>, Combine |-> FALSE, Flags |-> {},
             Regions |-> TRUE]
  /\ profilesToScan = <<DefaultProfile>> /\ lookup = <<>>
  /\ accountToProfiles = [a \in Accounts |-> <<>>]
  /\ profileGroups = <<SingleGroup(DefaultProfile)>>
  /\ mode = "dashboard"
  /\ \E current, previous \in Amounts :
       unit = <<[DashUnit(SingleGroup(DefaultProfile)) EXCEPT
                   !.pc = "running",
                   !.cost = [ZeroCostData EXCEPT !.LastMonthCost = previous,
                                                 !.CurrentMonthCost = current]]>>
  /\ jobs = <<>> /\ jobsClosed = FALSE /\ resultsChan = <<>>
  /\ workers = [started |-> 0, idle |-> 0, exited |-> 0]
  /\ results = <<>> /\ arrival = <<>> /\ table = <<>>
  /\ exported = [called |-> FALSE, items |-> <<>>]
  /\ issued = {} /\ faults = 0

\* uc.populateProfileData(&data, costData, ec2Summary)
PopulateProfileData(u) ==
  /\ pc = "populate" /\ unit[u].pc = "running"
  /\ unit' = [unit EXCEPT
       ![u].pc = "done",
       ![u].data = populateProfileData(@, unit[u].cost, unit[u].ec2)]
  /\ UNCHANGED <<inputVars, taskVars, pc, runErr, resolverVars, mode, poolVars, resultVars,
                 outputVars, issued, faults>>

NextPercent == \E u \in DOMAIN unit : PopulateProfileData(u)

SpecPercent == InitPercent /\ [][NextPercent]_vars

\* ------------------------------------------------- parseArgs and mergeConfig
\* The most flags given on a command line, and the most fields set in a file
MaxSupplied == 2

\* The fields mergeConfig merges
MergedFields == {"Profiles", "Regions", "All", "Combine", "ReportName", "ReportType",
                 "Dir", "TimeRange", "Tag", "Trend", "Audit"}
SliceFields == {"Profiles", "Regions", "Tag"}
BoolFields == {"All", "Combine", "Trend", "Audit"}

\* The default of each flag of the root command; time-range 0 is "not given"
FlagDefault(f) ==
  CASE f \in SliceFields -> <<>>
    [] f \in BoolFields -> FALSE
    [] f = "ReportType" -> <<"csv">>
    [] f = "TimeRange" -> 0
    [] OTHER -> ""

\* The values a flag is given on the command lines drawn
FlagValues(f) ==
  CASE f \in SliceFields -> << <<"cli">> >>
    [] f \in BoolFields -> <<TRUE, FALSE>>
    [] f = "ReportType" -> << <<"pdf">>, <<"csv">>, <<"csv", "pdf">> >>
    [] f = "TimeRange" -> <<7, 0>>
    [] OTHER -> <<"cli">>

\* The zero value of a field of types.Config, and the value a file sets it to
ZeroValue(f) ==
  CASE f \in SliceFields \cup {"ReportType"} -> <<>>
    [] f \in BoolFields -> FALSE
    [] f = "TimeRange" -> 0
    [] OTHER -> ""

FileValue(f) ==
  CASE f \in SliceFields -> <<"file">>
    [] f \in BoolFields -> TRUE
    [] f = "ReportType" -> <<"json">>
    [] f = "TimeRange" -> 30
    [] OTHER -> "file"

\* The CLIArgs parseArgs builds: each flag's value, or its default when the flag
\* is not given; an empty dir is the working directory, a time range of 0 is nil
parseArgs(cmd, file) ==
  [ConfigFile |-> file,
   Profiles |-> cmd.Profiles.v,
   Regions |-> cmd.Regions.v,
   All |-> cmd.All.v,
   Combine |-> cmd.Combine.v,
   ReportName |-> cmd.ReportName.v,
   ReportType |-> cmd.ReportType.v,
   Dir |-> IF cmd.Dir.v = "" THEN "cwd" ELSE cmd.Dir.v,
   TimeRange |-> cmd.TimeRange.v,
   Tag |-> cmd.Tag.v,
   Trend |-> cmd.Trend.v,
   Audit |-> cmd.Audit.v]

\* mergeConfig once the file is loaded
mergeConfig(a, cfg) ==
  [ConfigFile |-> a.ConfigFile,
   Profiles |-> IF Len(a.Profiles) = 0 THEN cfg.Profiles ELSE a.Profiles,
   Regions |-> IF Len(a.Regions) = 0 THEN cfg.Regions ELSE a.Regions,
   All |-> IF ~a.All THEN cfg.All ELSE a.All,
   Combine |-> IF ~a.Combine THEN cfg.Combine ELSE a.Combine,
   ReportName |-> IF a.ReportName = "" THEN cfg.ReportName ELSE a.ReportName,
   ReportType |-> IF Len(a.ReportType) <= 1
                     /\ (Len(a.ReportType) = 0 \/ a.ReportType[1] = "csv")
                    THEN cfg.ReportType ELSE a.ReportType,
   Dir |-> IF a.Dir = "" THEN cfg.Dir ELSE a.Dir,
   TimeRange |-> IF a.TimeRange = 0 /\ cfg.TimeRange > 0 THEN cfg.TimeRange
                 ELSE a.TimeRange,
   Tag |-> IF Len(a.Tag) = 0 THEN cfg.Tag ELSE a.Tag,
   Trend |-> IF ~a.Trend THEN cfg.Trend ELSE a.Trend,
   Audit |-> IF ~a.Audit THEN cfg.Audit ELSE a.Audit]

\* A command line of at most MaxSupplied flags, with or without --config-file, and
\* a file that sets at most MaxSupplied fields
InitMerge ==
  /\ pc = "merge" /\ runErr = NoError
  /\ \E S \in SubsetsUpTo(MergedFields, MaxSupplied) :
       \E k \in [S -> 1..3] :
         /\ \A f \in S : k[f] <= Len(FlagValues(f))
         /\ commandLine =
              [f \in MergedFields |->
                 IF f \in S THEN [set |-> TRUE, v |-> FlagValues(f)[k[f]]]
                 ELSE [set |-> FALSE, v |-> FlagDefault(f)]]
  /\ \E T \in SubsetsUpTo(MergedFields, MaxSupplied) :
       configFile = [f \in MergedFields |->
                       IF f \in T THEN FileValue(f) ELSE ZeroValue(f)]
  /\ \E file \in {"", "config.yaml"} : args = parseArgs(commandLine, file)
  /\ available = <<DefaultProfile>>
  /\ profilesToScan = <<>> /\ lookup = <<>>
  /\ accountToProfiles = [a \in Accounts |-> <<>>]
  /\ profileGroups = <<>>
  /\ mode = "none" /\ unit = <<>>
  /\ jobs = <<>> /\ jobsClosed = FALSE /\ resultsChan = <<>>
  /\ workers = [started |-> 0, idle |-> 0, exited |-> 0]
  /\ results = <<>> /\ arrival = <<>> /\ table = <<>>
  /\ exported = [called |-> FALSE, items |-> <<>>]
  /\ issued = {} /\ faults = 0
  /\ tasks = <<>> /\ local = <<>>

\* The first statement of RunDashboard: no file, a file that fails to load, or
\* the merge
MergeConfig ==
  /\ pc = "merge"
  /\ IF args.ConfigFile = ""
       THEN pc' = "start" /\ UNCHANGED <<args, runErr, faults>>
       ELSE \E ok \in Outcomes :
              /\ faults' = faults + FaultCost(ok)
              /\ IF ok
                   THEN /\ args' = mergeConfig(args, configFile)
                        /\ pc' = "start"
                        /\ UNCHANGED runErr
                   ELSE /\ runErr' = Errorf("failed to process configuration",
                                            "LoadConfigFile failed")
                        /\ pc' = "aborted"
                        /\ UNCHANGED args
  /\ UNCHANGED <<fileVars, taskVars, resolverVars, mode, unit, poolVars, resultVars,
                 outputVars, issued>>

NextMerge == MergeConfig

SpecMerge == InitMerge /\ [][NextMerge]_vars

\* ------------------------------------------------------------------ claims
\* The main goroutine is past the collection of the unit results
Aggregated ==
  pc \in {"collected", "sorted", "rendered", "done"} /\ mode \in ResultModes

\* The work unit a row was computed for: the unit its profile cell starts with
UnitOfRow(r) == CHOOSE u \in Units : r.Profile[1] \in Range(profileGroups[u].Profiles)

RowsOf(rows, u) == {i \in DOMAIN rows : UnitOfRow(rows[i]) = u}

\* C1: in every pipeline that aggregates rows, once the collection is over the
\* number of collected results equals the number of work units and every unit has
\* exactly one result, whichever calls failed.
C1_OneResultPerUnit ==
  Aggregated =>
    /\ Len(results) = NumUnits
    /\ \A u \in Units : Cardinality(RowsOf(results, u)) = 1

C1_Witness ==
  /\ pc = "collected" /\ mode = "commitments"
  /\ NumUnits = NProfiles /\ Len(results) = NumUnits
  /\ Cardinality({i \in DOMAIN results : results[i].Err # ""}) = MaxFaults

\* C2: in the cost dashboard every unit of the batch is processed to completion
\* and delivers its own result, whatever happened to its siblings, and a unit none
\* of whose own calls failed has Success = TRUE and no error.
C2_FailureStaysInUnit ==
  (Aggregated /\ mode = "dashboard") =>
    \A u \in Units :
      /\ unit[u].pc = "done"
      /\ \E i \in DOMAIN results : results[i] = unit[u].data
      /\ unit[u].failed = {} => (unit[u].data.Success /\ unit[u].data.Err = "")

C2_Witness ==
  /\ Aggregated /\ mode = "dashboard" /\ NumUnits >= 2
  /\ \E u, v \in Units :
       /\ "GetCostData" \in unit[u].failed /\ ~unit[u].data.Success
       /\ unit[v].failed = {} /\ unit[v].data.Success

\* A ProfileData whose pipeline-specific fields are all at their zero value
ZeroFields(d) ==
  /\ d.LastMonth = 0 /\ d.CurrentMonth = 0
  /\ d.ServiceCosts = <<>> /\ d.ServiceCostsFormatted = <<>>
  /\ d.BudgetInfo = <<>>
  /\ d.EC2Summary = EmptySummary /\ d.EC2SummaryFormatted = <<>>
  /\ d.PercentChangeInCost = Nil

\* C3: in the cost dashboard, the result of a unit (single or combined) whose
\* cost fetch failed has Success = FALSE, an error, and the period costs, service
\* costs, budgets, EC2 counts and percent change at their zero values.
C3_CostFailureZeroResult ==
  mode = "dashboard" =>
    \A i \in DOMAIN results :
      "GetCostData" \in unit[UnitOfRow(results[i])].failed =>
        /\ ~results[i].Success
        /\ results[i].Err # ""
        /\ ZeroFields(results[i])

C3_Witness ==
  /\ mode = "dashboard" /\ pc = "done"
  /\ \E i, j \in DOMAIN results :
       /\ "GetCostData" \in unit[UnitOfRow(results[i])].failed
       /\ profileGroups[UnitOfRow(results[i])].IsCombined
       /\ results[j].Success

\* The cell of an AuditData that a check fills
AuditField(row, c) ==
  CASE c = "GetNatGatewayCost" -> row.NatGatewayCosts
    [] c = "GetIdleLoadBalancers" -> row.IdleLoadBalancers
    [] c = "GetStoppedInstances" -> row.StoppedInstances
    [] c = "GetUnusedVolumes" -> row.UnusedVolumes
    [] c = "GetUnusedEIPs" -> row.UnusedEIPs
    [] c = "GetUntaggedResources" -> row.UntaggedResources
    [] c = "GetUnusedVpcEndpoints" -> row.UnusedVpcEndpoints
    [] OTHER -> row.BudgetAlerts

\* The cell a check's own value gives, and the cell of a check without value
OwnCell(c, p) ==
  CASE c = "GetNatGatewayCost" -> formatNatGatewayCosts(FindingsOf(c, p))
    [] c = "GetUntaggedResources" -> formatAuditMapForUntagged(FindingsOf(c, p))
    [] c = "GetBudgets" -> formatBudgetAlerts(FindingsOf(c, p))
    [] OTHER -> formatAuditMap(FindingsOf(c, p))

EmptyCell(c) == IF c = "GetBudgets" THEN Text("No budgets exceeded") ELSE Text("None")

\* C4: in the resource audit a unit some of whose 8 checks failed still has its
\* row, the row is rendered as a data row, the cell of a failed check is the
\* empty representation and the cell of every other check is what that check's
\* own value gives.
C4_FailedCheckDegradesAlone ==
  mode = "audit" =>
    /\ Aggregated => \A u \in Units : RowsOf(results, u) # {}
    /\ \A i \in DOMAIN table : table[i].kind = "data"
    /\ \A i \in DOMAIN results :
         \A c \in AuditChecks :
           AuditField(results[i], c) =
             IF c \in unit[UnitOfRow(results[i])].failed THEN EmptyCell(c)
             ELSE OwnCell(c, Primary(UnitOfRow(results[i])))

C4_Witness ==
  /\ mode = "audit" /\ pc = "done"
  /\ \E i \in DOMAIN results :
       /\ unit[UnitOfRow(results[i])].failed = {"GetIdleLoadBalancers"}
       /\ FindingsOf("GetIdleLoadBalancers", Primary(UnitOfRow(results[i]))) # <<>>
       /\ results[i].IdleLoadBalancers = Text("None")
       /\ results[i].StoppedInstances # Text("None")
       /\ table[i].kind = "data"

IsPermutation(a, b) ==
  /\ Len(a) = Len(b)
  /\ \E f \in Perms(Len(a)) : \A i \in DOMAIN a : a[i] = b[f[i]]

IdentifierOf(r) == profileGroups[UnitOfRow(r)].Identifier

\* C5: whatever order the results arrived in, the sequence handed to rendering
\* and export is a permutation of the arrived results in strictly ascending order
\* of unit identifier, and the table and the export follow that order.
C5_SortedPermutation ==
  (pc \in {"sorted", "rendered", "done"} /\ mode \in ResultModes) =>
    /\ IsPermutation(results, arrival)
    /\ \A i, j \in DOMAIN results :
         i < j => SeqLess(IdentifierOf(results[i]), IdentifierOf(results[j]))
    /\ pc \in {"rendered", "done"} =>
         /\ Len(table) = Len(results)
         /\ \A i \in DOMAIN table : table[i].Profile = results[i].Profile
    /\ (exported.called /\ mode \in {"dashboard", "audit"}) => exported.items = results

C5_Witness ==
  /\ pc = "done" /\ mode = "dashboard" /\ exported.called
  /\ Len(arrival) = 3
  /\ arrival[1].Profile = <<3>> /\ arrival[2].Profile = <<1>>
  /\ arrival[3].Profile = <<2>>
  /\ results[1].Profile = <<1>> /\ results[2].Profile = <<2>>
  /\ results[3].Profile = <<3>>

\* The count of state s that member i of unit u fetched, 0 if its fetch failed
\* or is not done
MemberCount(u, i, s) ==
  IF unit[u].members[i] = "merged"
    THEN Ec2SummaryOf(profileGroups[u].Profiles[i], unit[u].regions).n[s]
  ELSE 0

RECURSIVE SumOfMembers(_, _, _)
SumOfMembers(u, s, k) ==
  IF k = 0 THEN 0 ELSE MemberCount(u, k, s) + SumOfMembers(u, s, k - 1)

Resolved(a) ==
  {profilesToScan[i] : i \in {j \in DOMAIN lookup :
     lookup[j] = "ok" /\ AccountOf(profilesToScan[j]) = a}}

\* C7: with combine, after the lookups the resolver has returned without error
\* one group per account that some lookup resolved to, each group holding, in
\* ascending order, exactly the selected profiles resolved to its account; a
\* profile whose lookup failed is in no group.
C7_OneGroupPerAccount ==
  (args.Combine /\ pc \notin {"start", "verify", "lookup", "aborted"}) =>
    /\ runErr = NoError
    /\ \A a \in Accounts :
         Cardinality({u \in Units : profileGroups[u].AccountID = a}) =
           IF Resolved(a) # {} THEN 1 ELSE 0
    /\ \A u \in Units :
         /\ profileGroups[u].IsCombined
         /\ profileGroups[u].Profiles = SetToSeq(Resolved(profileGroups[u].AccountID))
         /\ profileGroups[u].Identifier = profileGroups[u].Profiles

C7_Witness ==
  /\ args.Combine /\ pc = "dispatch"
  /\ accountToProfiles[1] = <<2, 1>>
  /\ \E i \in DOMAIN lookup : lookup[i] = "failed"
  /\ NumUnits = 1
  /\ profileGroups[1].Profiles = <<1, 2>> /\ profileGroups[1].AccountID = 1

\* C8: when the credential check of the first selected profile fails, the run
\* returns a credential-validation error wrapping the cause and stops there: no
\* group is built, no pipeline starts and the only query ever issued is that
\* check.
C8_AbortOnCredentialFailure ==
  runErr.msg = "credential validation failed" =>
    /\ pc = "aborted"
    /\ runErr.cause # ""
    /\ profileGroups = <<>> /\ mode = "none" /\ unit = <<>>
    /\ issued = {Query(0, "GetAccountID", profilesToScan[1])}

C8_Witness ==
  /\ pc = "aborted" /\ runErr.msg = "credential validation failed"
  /\ Len(profilesToScan) = NProfiles /\ args.Combine

\* C9: the worker pool of the cost dashboard has started min(PoolSize, number of
\* units) workers.
C9_PoolIsMinOfBoundAndUnits ==
  (mode = "dashboard" /\ pc \notin {"run", "dispatch"}) =>
    workers.started = Min(PoolSize, NumUnits)

\* The row collected for unit u
ArrivedRow(u) == arrival[CHOOSE i \in DOMAIN arrival : UnitOfRow(arrival[i]) = u]

\* C10: at the end of a run that exports, every unit whose result is a failure
\* has an error row in the table and its result among the exported items, and
\* table and export hold one entry per unit.
C10_FailedUnitInTableAndExport ==
  (pc = "done" /\ mode \in ResultModes /\ exported.called) =>
    /\ Len(table) = NumUnits
    /\ Len(exported.items) = NumUnits
    /\ \A u \in Units :
         IsErrorRow(mode, ArrivedRow(u)) =>
           /\ \E i \in DOMAIN table :
                table[i] = [Profile |-> ArrivedRow(u).Profile, kind |-> "error"]
           /\ \E i \in DOMAIN exported.items : exported.items[i] = ArrivedRow(u)

\* C11: the selection follows the priority requested names, use-all, default
\* profile, all available: once selected, profilesToScan is the requested names
\* that are available whenever names were requested, even with use-all set; else
\* every available profile under use-all; else the default profile if available;
\* else every available profile.
C11_ExplicitBeforeUseAll ==
  pc # "start" =>
    profilesToScan =
      IF Len(args.Profiles) > 0
        THEN SelectSeq(args.Profiles, LAMBDA p : p \in Range(available))
      ELSE IF args.All THEN available
      ELSE IF DefaultProfile \in Range(available) THEN <<DefaultProfile>>
      ELSE available

\* C12: the resolver fails with ErrNoProfilesFound when nothing is available, with
\* ErrNoValidProfilesFound when names were requested and none of them is
\* available, and in every other case returns groups or a credential-validation
\* error.
C12_DistinctSelectionErrors ==
  pc # "start" =>
    LET noneAvailable == available = <<>>
        allUnmatched == /\ Len(args.Profiles) > 0
                        /\ Range(args.Profiles) \cap Range(available) = {}
    IN /\ noneAvailable => runErr.msg = "ErrNoProfilesFound"
       /\ (~noneAvailable /\ allUnmatched) => runErr.msg = "ErrNoValidProfilesFound"
       /\ ~(noneAvailable \/ allUnmatched) =>
            runErr.msg \in {"", "credential validation failed"}

\* C13: in every batch the resolver returns, every group has a member, no two
\* groups have the same identifier, and a group that is not combined has exactly
\* one member.
C13_BatchWellFormed ==
  \A u, v \in DOMAIN profileGroups :
    /\ profileGroups[u].Profiles # <<>>
    /\ u # v => profileGroups[u].Identifier # profileGroups[v].Identifier
    /\ ~profileGroups[u].IsCombined => Len(profileGroups[u].Profiles) = 1

\* C14 as stated: the percent change is (current - previous) / previous * 100
\* when previous is not below epsilon, 0 when previous and current are both below
\* epsilon, and no value when previous is below epsilon and current is not.
C14_PercentChangeAsStated ==
  \A u \in DOMAIN unit :
    (pc = "populate" /\ unit[u].pc = "done") =>
      LET previous == unit[u].cost.LastMonthCost
          current == unit[u].cost.CurrentMonthCost
          change == unit[u].data.PercentChangeInCost
      IN /\ previous >= Epsilon =>
              /\ change.defined
              /\ change.num = (current - previous) * 100 /\ change.den = previous
         /\ (previous < Epsilon /\ current < Epsilon) =>
              (change.defined /\ change.num = 0)
         /\ (previous < Epsilon /\ current >= Epsilon) => ~change.defined

\* C14: the percent change is (current - previous) / previous * 100 when previous
\* is above epsilon, 0 when previous is at most epsilon and current is below
\* epsilon, and no value when previous is at most epsilon and current is at
\* least epsilon.
C14_PercentChange ==
  \A u \in DOMAIN unit :
    (pc = "populate" /\ unit[u].pc = "done") =>
      LET previous == unit[u].cost.LastMonthCost
          current == unit[u].cost.CurrentMonthCost
          change == unit[u].data.PercentChangeInCost
      IN /\ previous > Epsilon =>
              /\ change.defined
              /\ change.num = (current - previous) * 100 /\ change.den = previous
         /\ (previous <= Epsilon /\ current < Epsilon) =>
              (change.defined /\ change.num = 0)
         /\ (previous <= Epsilon /\ current >= Epsilon) => ~change.defined

C14_Witness ==
  /\ pc = "populate"
  /\ \E u \in DOMAIN unit :
       /\ unit[u].pc = "done"
       /\ unit[u].cost.LastMonthCost = 10000 /\ unit[u].cost.CurrentMonthCost = 15000
       /\ unit[u].data.PercentChangeInCost.defined
       /\ unit[u].data.PercentChangeInCost.num =
            50 * unit[u].data.PercentChangeInCost.den

\* C15: after a configuration file is loaded and merged, every merged field that
\* was given on the command line has the command line's value, so that a file's
\* value is used only for a field the command line did not give.
C15_CommandLineWins ==
  (pc = "start" /\ commandLine # <<>> /\ args.ConfigFile # "") =>
    \A f \in MergedFields :
      commandLine[f].set => args[f] = parseArgs(commandLine, args.ConfigFile)[f]

\* C16: every row a pipeline has collected carries, in its Profile field, the
\* identifier of the work unit it was computed for, combined or not.
C16_ResultCarriesUnitIdentifier ==
  mode \in ResultModes =>
    \A i \in DOMAIN arrival :
      arrival[i].Profile = profileGroups[UnitOfRow(arrival[i])].Identifier

\* C17: a combined unit of the cost dashboard issues its cost query for one
\* profile only, the first of its members, and the cost figures of its result
\* are those of that profile, not a sum over the members.
C17_CombinedCostFromFirstMember ==
  mode = "dashboard" =>
    \A u \in DOMAIN unit :
      profileGroups[u].IsCombined =>
        LET first == profileGroups[u].Profiles[1]
            costQueries == {q \in issued : q.u = u /\ q.q = "GetCostData"}
        IN /\ costQueries \subseteq {Query(u, "GetCostData", first)}
           /\ unit[u].pc \in {"members", "done"} => costQueries # {}
           /\ (unit[u].pc = "done" /\ unit[u].data.Success) =>
                /\ unit[u].data.LastMonth = CostPrev(first)
                /\ unit[u].data.CurrentMonth = CostCur(first)
                /\ unit[u].data.ServiceCosts = <<CostCur(first)>>

C17_Witness ==
  /\ mode = "dashboard" /\ pc = "done"
  /\ \E u \in Units :
       /\ profileGroups[u].Profiles = <<1, 2>>
       /\ unit[u].data.Success
       /\ unit[u].data.CurrentMonth = CostCur(1)
       /\ CostCur(2) > 0
       /\ \A i \in 1..2 : Query(u, "GetEC2Summary", i) \in issued
       /\ Query(u, "GetCostData", 2) \notin issued

\* C18 as stated: in the cost dashboard, when the regions are not given and the
\* region discovery of a unit fails, the unit ends with Success = FALSE and no
\* inventory query is issued for it.
C18_RegionDiscoveryCritical ==
  mode = "dashboard" =>
    \A u \in DOMAIN unit :
      (~args.Regions /\ "GetAccessibleRegions" \in unit[u].failed) =>
        /\ unit[u].pc = "done" => ~unit[u].data.Success
        /\ \A q \in issued : ~(q.u = u /\ q.q = "GetEC2Summary")

\* C18: in the cost dashboard the region discovery is not critical: when the
\* regions are not given and the discovery of a unit fails, the unit goes on with
\* the fallback region list, its inventory queries are issued over that list, and
\* its result is a success unless it is a single-profile unit whose inventory
\* query failed too.
C18_RegionDiscoveryFallsBack ==
  mode = "dashboard" =>
    \A u \in DOMAIN unit :
      (~args.Regions /\ "GetAccessibleRegions" \in unit[u].failed) =>
        LET g == profileGroups[u]
            d == unit[u].data
        IN /\ unit[u].regions = "fallback"
           /\ ~g.IsCombined => Query(u, "GetEC2Summary", g.Profiles[1]) \in issued
           /\ (g.IsCombined /\ unit[u].pc = "done") =>
                \A i \in DOMAIN g.Profiles :
                  Query(u, "GetEC2Summary", g.Profiles[i]) \in issued
           /\ unit[u].pc = "done" =>
                (d.Success <=> (g.IsCombined \/ "GetEC2Summary" \notin unit[u].failed))
           /\ (unit[u].pc = "done" /\ ~g.IsCombined /\ d.Success) =>
                d.EC2Summary = Ec2SummaryOf(g.Profiles[1], "fallback")

C18_Witness ==
  /\ mode = "dashboard" /\ pc = "done" /\ ~args.Regions
  /\ \E u \in Units :
       /\ ~profileGroups[u].IsCombined
       /\ unit[u].failed = {"GetAccessibleRegions"}
       /\ unit[u].regions = "fallback"
       /\ unit[u].data.Success /\ unit[u].data.Err = ""
       /\ Query(u, "GetEC2Summary", profileGroups[u].Profiles[1]) \in issued

\* C19: in the cost dashboard a unit, single or combined, whose inventory query
\* failed while its cost query succeeded still ends with Success = TRUE and no
\* error, its instance counts being those of the fetches that succeeded.
C19_InventoryFailureTolerated ==
  mode = "dashboard" =>
    \A u \in DOMAIN unit :
      (/\ unit[u].pc = "done"
       /\ "GetEC2Summary" \in unit[u].failed
       /\ "GetCostData" \notin unit[u].failed) =>
        /\ unit[u].data.Success
        /\ unit[u].data.Err = ""
        /\ unit[u].data.EC2Summary = unit[u].ec2

C27_OnePipelineByPriority ==
  LET order == <<"S3Audit", "LogsAudit", "Commitments", "Audit", "FullAudit",
                 "Trend", "Transfer">>
      modes == <<"s3", "logs", "commitments", "audit", "fullaudit", "trend",
                 "transfer">>
      set == {i \in DOMAIN order : order[i] \in args.Flags}
      first == CHOOSE i \in set : \A j \in set : i <= j
  IN /\ (pc # "dispatch" /\ NumUnits > 0) =>
          /\ mode = IF set = {} THEN "dashboard" ELSE modes[first]
          /\ mode = "dashboard" <=> args.Flags = {}
     /\ NumUnits = 0 => (mode = "none" /\ unit = <<>>)
     /\ pc = "enqueue" => mode = "dashboard"
     /\ pc = "wait" => mode \in GoModes
     /\ pc = "trend" => mode = "trend"

C27_Witness ==
  /\ pc = "wait" /\ mode = "commitments"
  /\ args.Flags = {"Commitments", "Audit", "FullAudit", "Trend", "Transfer"}
  /\ unit # <<>>

\* C28: on every path, failure paths included, the progress bar of a unit whose
\* result is delivered has received its declared number of increments: 5 in the
\* cost dashboard, 8 in the audit, 6 in the full audit, 2 in the logs, S3 and
\* commitments pipelines.
C28_BarCompletes ==
  \A u \in DOMAIN unit :
    (mode \in {"dashboard", "audit", "fullaudit", "logs", "s3", "commitments"}
       /\ unit[u].pc = "done") =>
      unit[u].bar = CASE mode = "dashboard" -> DashboardSteps
                      [] mode = "audit" -> AuditSteps
                      [] mode = "fullaudit" -> FullAuditSteps
                      [] OTHER -> 2

\* C25: no table row is rendered and no export is invoked before every unit of the
\* batch has delivered its result and the sort has run: whenever the table has a row
\* or the export was called, all results are collected, the list is in ascending
\* order of Profile, and the table rows follow that order.
C25_OutputAfterCollectAndSort ==
  /\ (table # <<>> \/ exported.called) =>
       /\ pc \in {"rendered", "done"}
       /\ Len(arrival) = NumUnits
       /\ \A u \in DOMAIN unit : unit[u].pc = "done"
       /\ Len(results) = NumUnits
       /\ \A i, j \in DOMAIN results :
            i < j => ~SeqLess(results[j].Profile, results[i].Profile)
       /\ table = [i \in DOMAIN results |-> TableRow(mode, results[i])]
  /\ exported.called => (pc = "done" /\ table # <<>>)
  /\ pc \in {"sorted", "rendered"} => (Len(arrival) = NumUnits /\ ~exported.called)
  /\ pc \in {"wait", "collect", "collected", "enqueue"} =>
       (table = <<>> /\ ~exported.called)

\* Three units delivered out of order, sorted, rendered and exported
C25_Witness ==
  /\ pc = "done" /\ exported.called /\ Len(table) = 3
  /\ arrival # results
  /\ mode \in {"dashboard", "audit", "fullaudit"}

\* The units whose goroutine or job has started and has not delivered its result
InFlight == {u \in DOMAIN unit : unit[u].pc \in {"running", "checked", "members"}}

\* C22: in every pipeline, the number of units being processed at the same time
\* never exceeds the constant bound of the worker pool (10), however many units the
\* batch has.
C22_AtMostPoolSizeInFlight == Cardinality(InFlight) <= PoolSize

\* C23: generateDashboardData returns for a batch of fewer or of more units than
\* workers: no send on the job queue or on the result channel blocks, every worker
\* exits once the queue is closed and drained, and no worker is running when the
\* function returns.
C23_GenerateDashboardDataReturns ==
  /\ <>(pc = "collected")
  /\ [](pc = "enqueue" /\ (\E u \in DOMAIN unit : unit[u].pc = "new")
          => Len(jobs) < NumUnits)
  /\ []((\E u \in DOMAIN unit : unit[u].pc = "running") => Len(resultsChan) < NumUnits)
  /\ [](pc = "collect" /\ Len(arrival) = NumUnits => jobsClosed /\ jobs = <<>>)
  /\ [](pc = "collected" =>
          /\ workers.exited = workers.started /\ workers.idle = 0
          /\ jobs = <<>> /\ resultsChan = <<>>
          /\ Len(results) = NumUnits
          /\ \A u \in DOMAIN unit : unit[u].pc = "done")

\* The function has returned for a batch of one unit more than the workers
C23_Witness ==
  /\ pc = "collected" /\ NumUnits = MaxBatch
  /\ workers.started = PoolSize /\ workers.exited = PoolSize
  /\ Len(results) = MaxBatch

\* C24: GetEC2Summary returns after finitely many page requests for every region,
\* also when a region's page request fails: the failed request ends the region's
\* listing and the page is not requested again and again.
C24_GetEC2SummaryReturns == <>(local.returned)

\* C30: GetCostData is all-or-nothing over its three sub-queries: whichever of them
\* fail and in whatever order they finish, it returns an error with a zero CostData,
\* or no error with the three values of three successful sub-queries; it never
\* returns partly filled data, and no send on the error channel waits.
C30_CostDataAllOrNothing ==
  LET p == local.profile
      failed == {k \in DOMAIN tasks : ~tasks[k].ok}
  IN /\ local.pc = "returned" =>
          \/ /\ local.ret.err # ""
             /\ local.ret.data = ZeroCostData
             /\ (failed # {} \/ local.ret.err \in {"client", "tags"})
             /\ local.ret.err \in {SubQueries[k] : k \in failed} \cup {"client", "tags"}
          \/ /\ local.ret.err = ""
             /\ failed = {}
             /\ \A k \in DOMAIN tasks : tasks[k].pc = "exited"
             /\ local.ret.data.CurrentMonthCost = CostCur(p)
             /\ local.ret.data.LastMonthCost = CostPrev(p)
             /\ local.ret.data.CurrentMonthCostByService = <<CostCur(p)>>
             /\ \E F \in SUBSET {"GetCostData.account", "GetCostData.budgets"} :
                  local.ret.data = CostDataOf(p, F)
     /\ \A k \in DOMAIN tasks : tasks[k].pc = "erred" => Len(local.errChan) < ErrChanCap
     /\ Len(local.errChan) = Cardinality({k \in failed : tasks[k].pc = "exited"})

\* One sub-query failed after the two others had assigned their fields, and the
\* call returned the error with a zero CostData
C30_Witness ==
  /\ local.pc = "returned"
  /\ Cardinality({k \in DOMAIN tasks : ~tasks[k].ok}) = 1
  /\ local.costData # ZeroCostData
  /\ local.ret.data = ZeroCostData /\ local.ret.err \in {"current", "previous", "services"}

\* The checks of a unit are each issued at most once, and exactly once, all returned,
\* when the unit's audit data is assembled from their values
ChecksOnceThenAssembled ==
  /\ \A c \in AuditChecks : local.calls[c] <= 1
  /\ local.assembled =>
       /\ \A c \in AuditChecks : local.calls[c] = 1
       /\ \A t \in DOMAIN tasks : tasks[t].pc = "exited" /\ tasks[t].todo = <<>>
       /\ local.row = AuditDataOf(<<DefaultProfile>>, local.accountID,
                        [c \in AuditChecks |->
                           IF c \in local.failed THEN <<>>
                           ELSE FindingsOf(c, DefaultProfile)])

\* C26 as stated: for each unit, in runAuditReport and in the main audit of
\* runFullAuditReport, each of the 8 checks is issued exactly once, by 8 tasks that
\* run in parallel, and the result is assembled only after the 8 tasks have ended.
C26_EightParallelTasks ==
  /\ ChecksOnceThenAssembled
  /\ \A c, d \in AuditChecks :
       (c # d /\ local.issuer[c] # 0 /\ local.issuer[d] # 0)
         => local.issuer[c] # local.issuer[d]

\* C26: each of the 8 checks of a unit is issued exactly once and the unit's audit
\* data is assembled only after the 8 have returned, whatever their completion
\* order; runAuditReport issues them from 8 tasks that run in parallel, and the main
\* audit of runFullAuditReport issues them one after the other from one task.
C26_EachCheckOnceThenAssembled ==
  /\ ChecksOnceThenAssembled
  /\ mode = "audit" =>
       /\ Len(tasks) = AuditSteps
       /\ \A c \in AuditChecks : local.issuer[c] \in {0, CheckNumber(c)}
       /\ local.assembled => local.bar = AuditSteps
  /\ mode = "fullaudit" =>
       /\ Len(tasks) = 1 /\ local.peak <= 1
       /\ \A j, k \in DOMAIN CheckOrder :
            (j < k /\ local.calls[CheckOrder[k]] = 1) => local.calls[CheckOrder[j]] = 1
       /\ local.assembled => local.bar = 1

\* A unit of the audit assembled after its 8 checks were in flight all at once and
\* one of them failed
C26_Witness ==
  /\ mode = "audit" /\ local.assembled
  /\ local.peak = AuditSteps
  /\ local.failed # {}

\* The tasks that are between mu.Lock() and mu.Unlock()
Holders == {x \in (DOMAIN tasks) \X (5..6) : tasks[x[1]][x[2]].pc = "locked"}

\* C21 as stated: every write of a sub-query task to its unit's result is made while
\* the task holds the unit's lock, and a unit's lock is shared with no other unit,
\* so no task waits for a lock that a task of another unit holds.
C21_WritesUnderUnitLock ==
  /\ local.unlocked = {}
  /\ \A u \in DOMAIN tasks : \A t \in 5..6 :
       tasks[u][t].pc = "want" => (local.mu = <<>> \/ local.mu[1] = u)

\* C21: no two tasks write the same part of a unit's result at the same time. The
\* tasks of the main audit, transfer, logs and S3 slots each write a slot of their
\* own and hold no lock; the savings-plans and reservations tasks, which share the
\* commitments slot, write it only while holding the one mutex of the run, which at
\* most one task of all units holds at a time.
C21_NoConflictingWrites ==
  /\ Cardinality(Holders) <= 1
  /\ \A x \in Holders : local.mu = x
  /\ local.mu # <<>> => local.mu \in Holders
  /\ local.unlocked \subseteq (DOMAIN tasks) \X (1..4)
  /\ \A u \in DOMAIN tasks : \A t \in 1..4 :
       (tasks[u][t].pc = "exited" /\ tasks[u][t].ok) <=> <<u, t>> \in local.unlocked
  /\ \A u \in DOMAIN tasks :
       /\ local.report[u].TransferAudit.present
            <=> (tasks[u][2].pc = "exited" /\ tasks[u][2].ok)
       /\ local.report[u].LogsAudit.present
            <=> (tasks[u][3].pc = "exited" /\ tasks[u][3].ok)
       /\ local.report[u].S3Audit.present
            <=> (tasks[u][4].pc = "exited" /\ tasks[u][4].ok)
       /\ local.report[u].MainAudit.present <=> tasks[u][1].pc = "exited"

\* A task of unit 2 waits for the mutex that a task of unit 1 holds, after a slot
\* task of unit 1 has written its slot with no lock
C21_Witness ==
  /\ Len(tasks) = 2
  /\ local.mu # <<>> /\ local.mu[1] = 1
  /\ \E t \in 5..6 : tasks[2][t].pc = "want"
  /\ <<1, 2>> \in local.unlocked

\* C29: for every interleaving of the savings-plans task and the reservations task
\* of a unit, the commitments slot holds the summary of every task that succeeded,
\* from the moment the task has written it: with both successful both summaries are
\* there, and the create-if-absent step of one task discards nothing of the other.
C29_CommitmentsKeepsEverySummary ==
  \A u \in DOMAIN tasks :
    LET slot == local.report[u].CommitmentsAudit
        wrote(t) == tasks[u][t].pc = "exited" /\ tasks[u][t].ok
    IN /\ slot.present <=> (wrote(5) \/ wrote(6))
       /\ slot.v.SPSummary = IF wrote(5) THEN SPSummaryOf(Primary(u)) ELSE ZeroSummary
       /\ slot.v.RISummary = IF wrote(6) THEN RISummaryOf(Primary(u)) ELSE ZeroSummary
       /\ local.unitpc[u] \in {"joined", "done"} =>
            local.report[u] = FullAuditReportOf(profileGroups[u], local.failed[u])

\* Both tasks succeeded, the savings-plans task came second and found the slot the
\* reservations task had created, and the unit's row has both summaries
C29_Witness ==
  \E u \in DOMAIN tasks :
    /\ local.unitpc[u] = "done"
    /\ tasks[u][5].ok /\ tasks[u][6].ok
    /\ tasks[u][6].sawNil /\ ~tasks[u][5].sawNil
    /\ local.report[u].CommitmentsAudit.v.SPSummary = SPSummaryOf(Primary(u))
    /\ local.report[u].CommitmentsAudit.v.RISummary = RISummaryOf(Primary(u))

====
